---- MODULE Spec2Model ----
(***************************************************************************)
(* A model of the TASI financial data pipeline's loaders:                  *)
(*   "etl" : schema/02_etl_migrate.py  TASIDataMigrator.migrate            *)
(*   "md"  : migrate_data.py           main (autocommit connection)        *)
(*   "sd"  : setup_database.py         run_migration (rollback on error)   *)
(* of scripts/insert_extracted_data.py (the CSV upsert, SpecUpsert), and of *)
(* two callers stepping through one TASIDataMigrator's resolvers (SpecRace).*)
(* Strings are sequences of one-character strings.                         *)
(***************************************************************************)
EXTENDS Integers, Sequences, FiniteSets, TLC

\* ------------------------------------------------------------------ bounds
MaxLoaded == 3       \* records in all the input files of a behaviour of Spec
MaxInserted == 3     \* rows in all the INSERT_READY.csv files of a behaviour
MaxCalls == 2        \* resolver calls of each worker in a behaviour of SpecRace
MaxFailures == 2     \* failing records in the input of a behaviour of SpecBatch

\* ------------------------------------------------------- program constants
ErrorCap == 100      \* 02_etl_migrate.py: if errors > 100: break
BatchSize == 500     \* (idx + 1) % 500 == 0: conn.commit()

\* Python None / SQL NULL where an id is expected (SERIAL ids start at 1).
Null == 0
\* A fiscal_year cell that is empty: pandas reads it as NaN and int(NaN) raises.
NaNYear == -1

Loaders == {"etl", "md", "sd"}

\* ----------------------------------------------------------------- strings
RECURSIVE LStrip(_)
LStrip(s) == IF s # <<>> /\ Head(s) = " " THEN LStrip(Tail(s)) ELSE s

RECURSIVE RStrip(_)
RStrip(s) == IF s # <<>> /\ s[Len(s)] = " " THEN RStrip(SubSeq(s, 1, Len(s) - 1)) ELSE s

\* str.strip()
Strip(s) == RStrip(LStrip(s))

LowerChar(c) ==
    CASE c = "A" -> "a"
      [] c = "B" -> "b"
      [] c = "C" -> "c"
      [] c = "E" -> "e"
      [] c = "G" -> "g"
      [] c = "H" -> "h"
      [] c = "L" -> "l"
      [] c = "M" -> "m"
      [] c = "N" -> "n"
      [] c = "O" -> "o"
      [] c = "P" -> "p"
      [] c = "S" -> "s"
      [] c = "W" -> "w"
      [] OTHER -> c

\* str.lower()
Lower(s) == [i \in 1..Len(s) |-> LowerChar(s[i])]

\* ticker.endswith('.0')
EndsWithDotZero(s) == Len(s) >= 2 /\ s[Len(s) - 1] = "." /\ s[Len(s)] = "0"

TickerKey(l, raw) ==
    LET t == Strip(raw) IN
    IF l = "md" /\ EndsWithDotZero(t) THEN SubSeq(t, 1, Len(t) - 2) ELSE t

\* The sector name used as the natural key; <<>> (an empty or missing cell) when
\* the resolver returns None.
SectorKey(l, raw) ==
    LET name == Strip(raw) IN
    IF name = <<>> THEN <<>>
    ELSE IF l = "md" /\ Lower(name) = <<"n", "a", "n">> THEN <<>>
    ELSE name

\* The quarter of the month alone, whatever the period type.
QuarterOfMonth(month, ptype) ==
    IF month <= 3 THEN "Q1"
    ELSE IF month <= 6 THEN "Q2"
    ELSE IF month <= 9 THEN "Q3"
    ELSE "Q4"

\* determine_quarter_from_date / get_quarter
Quarter(month, ptype) ==
    IF ptype = "Annual" THEN "FY"
    ELSE IF month <= 3 THEN "Q1"
    ELSE IF month <= 6 THEN "Q2"
    ELSE IF month <= 9 THEN "Q3"
    ELSE "Q4"

\* Month of period_end after the fallback; month 0 stands for an unparseable date.
PeriodEndMonth(month, ptype) ==
    IF month = 0 THEN (IF ptype = "Annual" THEN 12 ELSE 6) ELSE month

\* The (fiscal_year, fiscal_quarter) cache key of a row.
PeriodKey(row) == <<row.fy, Quarter(PeriodEndMonth(row.month, row.ptype), row.ptype)>>

\* ------------------------------------------------------------ the database
EmptyTables ==
    [sectors |-> {}, companies |-> {}, periods |-> {}, statements |-> {}, metrics |-> {}]

InitSeq == [sectors |-> 1, companies |-> 1, periods |-> 1, statements |-> 1, metrics |-> 1]

EmptyMap == [k \in {} |-> Null]

Put(f, k, v) == [x \in DOMAIN f \cup {k} |-> IF x = k THEN v ELSE f[x]]

\* fetchone()[0] of a SELECT by key: the first row found.
FirstId(rows) == CHOOSE i \in {r.id : r \in rows} : \A r \in rows : i <= r.id

\* cursor.execute raises: the transaction is in the failed state (a connection that
\* is not autocommit refuses every statement after an error until rollback), or
\* the statement at this site fails.
Raises(m, site, dbfail) == m.failed \/ dbfail = site

\* What a resolver or insert returns: the machine state after it, the id, and
\* whether it raised. A database error leaves a transaction failed.
Ret(m, id, via) == [m |-> m, id |-> id, err |-> FALSE, via |-> via]

DbError(m) ==
    [m |-> [m EXCEPT !.failed = (m.l # "md")], id |-> Null, err |-> TRUE, via |-> "error"]

PyError(m) == [m |-> m, id |-> Null, err |-> TRUE, via |-> "error"]

\* -------------------------------------------------------------- resolvers
\* get_or_create_sector without the store lookup: a cache miss always inserts.
GetOrCreateSectorNoLookup(m, raw, dbfail) ==
    LET name == SectorKey(m.l, raw) IN
    IF name = <<>> THEN Ret(m, Null, "none")
    ELSE IF name \in DOMAIN m.sectors_cache THEN Ret(m, m.sectors_cache[name], "cache")
    ELSE IF Raises(m, "sector_insert", dbfail) THEN DbError(m)
    ELSE LET id == m.seq.sectors IN
         Ret([m EXCEPT !.view.sectors = @ \cup {[id |-> id, name |-> name]},
                       !.seq.sectors = @ + 1,
                       !.sectors_cache = Put(@, name, id)], id, "insert")

GetOrCreateSector(m, raw, dbfail) ==
    LET name == SectorKey(m.l, raw) IN
    IF name = <<>> THEN Ret(m, Null, "none")
    ELSE IF name \in DOMAIN m.sectors_cache THEN Ret(m, m.sectors_cache[name], "cache")
    ELSE IF Raises(m, "sector_select", dbfail) THEN DbError(m)
    ELSE LET found == {r \in m.view.sectors : r.name = name} IN
         IF found # {}
         THEN Ret([m EXCEPT !.sectors_cache = Put(@, name, FirstId(found))],
                  FirstId(found), "store")
         ELSE IF Raises(m, "sector_insert", dbfail) THEN DbError(m)
         ELSE LET id == m.seq.sectors IN
              Ret([m EXCEPT !.view.sectors = @ \cup {[id |-> id, name |-> name]},
                            !.seq.sectors = @ + 1,
                            !.sectors_cache = Put(@, name, id)], id, "insert")

\* INSERT INTO companies: sector_id REFERENCES sectors, ticker UNIQUE.
CompanyInsertViolates(m, ticker, sector_id) ==
    \/ sector_id # Null /\ ~\E s \in m.view.sectors : s.id = sector_id
    \/ \E c \in m.view.companies : c.ticker = ticker

GetOrCreateCompany(m, row, dbfail) ==
    LET ticker == TickerKey(m.l, row.ticker) IN
    IF ticker \in DOMAIN m.companies_cache
    THEN Ret(m, m.companies_cache[ticker], "cache") @@ [sec |-> Ret(m, Null, "none")]
    ELSE IF Raises(m, "company_select", dbfail)
    THEN DbError(m) @@ [sec |-> Ret(m, Null, "none")]
    ELSE LET found == {r \in m.view.companies : r.ticker = ticker} IN
         IF found # {}
         THEN Ret([m EXCEPT !.companies_cache = Put(@, ticker, FirstId(found))],
                  FirstId(found), "store") @@ [sec |-> Ret(m, Null, "none")]
         ELSE LET s == GetOrCreateSector(m, row.sector, dbfail) IN
              IF s.err THEN s @@ [sec |-> s]
              ELSE IF Raises(s.m, "company_insert", dbfail) THEN DbError(s.m) @@ [sec |-> s]
              ELSE LET id == s.m.seq.companies IN
                   IF CompanyInsertViolates(s.m, ticker, s.id)
                   THEN DbError([s.m EXCEPT !.seq.companies = @ + 1]) @@ [sec |-> s]
                   ELSE Ret([s.m EXCEPT
                               !.view.companies = @ \cup
                                   {[id |-> id, ticker |-> ticker, sector_id |-> s.id]},
                               !.seq.companies = @ + 1,
                               !.companies_cache = Put(@, ticker, id)], id, "insert")
                        @@ [sec |-> s]

\* quarter_starts.get(fiscal_quarter, 1), quarter_ends.get(fiscal_quarter, 12)
QuarterStartMonth(q) ==
    CASE q = "Q1" -> 1 [] q = "Q2" -> 4 [] q = "Q3" -> 7 [] q = "Q4" -> 10 [] OTHER -> 1

QuarterEndMonth(q) ==
    CASE q = "Q1" -> 3 [] q = "Q2" -> 6 [] q = "Q3" -> 9 [] q = "Q4" -> 12 [] OTHER -> 12

\* The day of datetime(year, month + 1, 1) - pd.Timedelta(days=1)
LastDay(year, month) ==
    IF month \in {4, 6, 9, 11} THEN 30
    ELSE IF month # 2 THEN 31
    ELSE IF year % 4 = 0 /\ (year % 100 # 0 \/ year % 400 = 0) THEN 29
    ELSE 28

\* Every period ending on December 31, as the default end month would give.
PeriodSpanToYearEnd(fiscal_year, fiscal_quarter, period_type) ==
    [period_start |-> IF period_type = "Annual" THEN <<fiscal_year, 1, 1>>
                      ELSE <<fiscal_year, QuarterStartMonth(fiscal_quarter), 1>>,
     period_end |-> <<fiscal_year, 12, 31>>]

\* period_start and period_end of the INSERT INTO fiscal_periods, as
\* <<year, month, day>>.
PeriodSpan(fiscal_year, fiscal_quarter, period_type) ==
    IF period_type = "Annual"
    THEN [period_start |-> <<fiscal_year, 1, 1>>, period_end |-> <<fiscal_year, 12, 31>>]
    ELSE [period_start |-> <<fiscal_year, QuarterStartMonth(fiscal_quarter), 1>>,
          period_end |->
              IF QuarterEndMonth(fiscal_quarter) = 12 THEN <<fiscal_year, 12, 31>>
              ELSE <<fiscal_year, QuarterEndMonth(fiscal_quarter),
                     LastDay(fiscal_year, QuarterEndMonth(fiscal_quarter))>>]

GetOrCreatePeriod(m, row, dbfail) ==
    IF row.fy = NaNYear THEN PyError(m)
    ELSE
    LET key == PeriodKey(row) IN
    IF key \in DOMAIN m.periods_cache THEN Ret(m, m.periods_cache[key], "cache")
    ELSE IF Raises(m, "period_select", dbfail) THEN DbError(m)
    ELSE LET found == {r \in m.view.periods : r.year = key[1] /\ r.quarter = key[2]} IN
         IF found # {}
         THEN Ret([m EXCEPT !.periods_cache = Put(@, key, FirstId(found))],
                  FirstId(found), "store")
         ELSE IF Raises(m, "period_insert", dbfail) THEN DbError(m)
         ELSE LET id == m.seq.periods IN
              Ret([m EXCEPT
                     !.view.periods = @ \cup
                         {[id |-> id, year |-> key[1], quarter |-> key[2],
                           ptype |-> row.ptype]
                          @@ PeriodSpan(key[1], key[2], row.ptype)},
                     !.seq.periods = @ + 1,
                     !.periods_cache = Put(@, key, id)], id, "insert")

\* ------------------------------------------------------------------ facts
\* INSERT INTO financial_statements: company_id and period_id are REFERENCES.
StatementInsertViolates(m, cid, pid) ==
    \/ ~\E c \in m.view.companies : c.id = cid
    \/ ~\E p \in m.view.periods : p.id = pid

InsertStatementRow(m, row, cid, pid, filing, dbfail) ==
    IF Raises(m, "statement_insert", dbfail) THEN DbError(m)
    ELSE IF StatementInsertViolates(m, cid, pid)
    THEN DbError([m EXCEPT !.seq.statements = @ + 1])
    ELSE LET id == m.seq.statements IN
         Ret([m EXCEPT
                !.view.statements = @ \cup
                    {[id |-> id, company_id |-> cid, period_id |-> pid,
                      filing_id |-> filing, data |-> row.data]},
                !.seq.statements = @ + 1], id, "insert")

\* The check by (company_id, period_id) that precedes the INSERT.
ExistingStatementNone(m, cid, pid) == {}

ExistingStatement(m, cid, pid) ==
    {r \in m.view.statements : r.company_id = cid /\ r.period_id = pid}

\* TASIDataMigrator.insert_financial_statement
EtlInsertStatement(m, row, cid, pid, dbfail) ==
    LET filing == Strip(row.filing)
        byFiling == {r \in m.view.statements : r.filing_id = filing}
        byKey == ExistingStatement(m, cid, pid)
    IN  IF filing # <<>> /\ Raises(m, "statement_select", dbfail) THEN DbError(m)
        ELSE IF filing # <<>> /\ byFiling # {} THEN Ret(m, FirstId(byFiling), "store")
        ELSE IF Raises(m, "statement_select", dbfail) THEN DbError(m)
        ELSE IF byKey # {} THEN Ret(m, FirstId(byKey), "store")
        ELSE InsertStatementRow(m, row, cid, pid, filing, dbfail)

InsertMetricsRow(m, row, sid, dbfail) ==
    IF row.score = "inf" THEN PyError(m)
    ELSE IF Raises(m, "metrics_insert", dbfail) THEN DbError(m)
    ELSE IF ~\E st \in m.view.statements : st.id = sid
    THEN DbError([m EXCEPT !.seq.metrics = @ + 1])
    ELSE Ret([m EXCEPT
                !.view.metrics = @ \cup
                    {[id |-> m.seq.metrics, statement_id |-> sid, data |-> row.data]},
                !.seq.metrics = @ + 1], m.seq.metrics, "insert")

\* A loader that inserts the Metrics of every record it processes.
InsertMetricsAlways(m, row, sid, dbfail) == InsertMetricsRow(m, row, sid, dbfail)

\* TASIDataMigrator.insert_financial_metrics, and run_migration's "if not exists".
InsertMetricsIfAbsent(m, row, sid, dbfail) ==
    IF Raises(m, "metrics_select", dbfail) THEN DbError(m)
    ELSE IF \E x \in m.view.metrics : x.statement_id = sid THEN Ret(m, Null, "store")
    ELSE InsertMetricsRow(m, row, sid, dbfail)

\* ------------------------------------------------- one record of the loop
\* The body of the try block for one row: the machine state after it, whether it
\* raised, and what it did.
Body(m, c, p, outcome, sid, wrote) ==
    [m |-> m, c |-> c, p |-> p, outcome |-> outcome, sid |-> sid, wrote |-> wrote]

NoRet(m) == Ret(m, Null, "none")

\* The fact rows of a record once its Statement id is known: the Metrics insert.
\* (st is what the Statement step returned, x what the Metrics step returned.)
AfterMetrics(c, p, st, x) ==
    Body(x.m, c, p, IF x.err THEN "error" ELSE "success", st.id, st.via = "insert")

AfterStatement(c, p, st, row, dbfail) ==
    IF st.err THEN Body(st.m, c, p, "error", Null, FALSE)
    ELSE AfterMetrics(c, p, st, InsertMetricsIfAbsent(st.m, row, st.id, dbfail))

\* 02_etl_migrate.py, migrate: lines 343-352
EtlAfterPeriod(c, p, row, dbfail) ==
    IF p.err THEN Body(p.m, c, p, "error", Null, FALSE)
    ELSE AfterStatement(c, p, EtlInsertStatement(p.m, row, c.id, p.id, dbfail), row, dbfail)

EtlAfterCompany(c, row, dbfail) ==
    IF c.err THEN Body(c.m, c, NoRet(c.m), "error", Null, FALSE)
    ELSE EtlAfterPeriod(c, GetOrCreatePeriod(c.m, row, dbfail), row, dbfail)

EtlBody(m, row, dbfail) == EtlAfterCompany(GetOrCreateCompany(m, row, dbfail), row, dbfail)

\* setup_database.py, run_migration: lines 289-372
SdStatement(m, row, cid, pid, dbfail) ==
    IF Raises(m, "statement_select", dbfail) THEN DbError(m)
    ELSE IF ExistingStatement(m, cid, pid) # {}
    THEN Ret(m, FirstId(ExistingStatement(m, cid, pid)), "store")
    ELSE InsertStatementRow(m, row, cid, pid, Strip(row.filing), dbfail)

SdAfterPeriod(c, p, row, dbfail) ==
    IF p.err THEN Body(p.m, c, p, "error", Null, FALSE)
    ELSE AfterStatement(c, p, SdStatement(p.m, row, c.id, p.id, dbfail), row, dbfail)

SdAfterCompany(c, row, dbfail) ==
    IF c.err THEN Body(c.m, c, NoRet(c.m), "error", Null, FALSE)
    ELSE SdAfterPeriod(c, GetOrCreatePeriod(c.m, row, dbfail), row, dbfail)

SdBody(m, row, dbfail) == SdAfterCompany(GetOrCreateCompany(m, row, dbfail), row, dbfail)

\* migrate_data.py, main: lines 234-321
MdAfterStatement(c, p, st, row, dbfail) ==
    IF st.err THEN Body(st.m, c, p, "error", Null, FALSE)
    ELSE AfterMetrics(c, p, st, InsertMetricsRow(st.m, row, st.id, dbfail))

MdAfterPeriod(c, p, row, dbfail) ==
    IF p.err THEN Body(p.m, c, p, "error", Null, FALSE)
    ELSE IF Raises(p.m, "statement_select", dbfail)
    THEN Body(DbError(p.m).m, c, p, "error", Null, FALSE)
    ELSE IF ExistingStatement(p.m, c.id, p.id) # {}
    THEN Body(p.m, c, p, "skipped", FirstId(ExistingStatement(p.m, c.id, p.id)), FALSE)
    ELSE MdAfterStatement(c, p, InsertStatementRow(p.m, row, c.id, p.id, <<>>, dbfail),
                          row, dbfail)

MdAfterCompany(c, row, dbfail) ==
    IF c.err THEN Body(c.m, c, NoRet(c.m), "error", Null, FALSE)
    ELSE MdAfterPeriod(c, GetOrCreatePeriod(c.m, row, dbfail), row, dbfail)

MdBody(m, row, dbfail) == MdAfterCompany(GetOrCreateCompany(m, row, dbfail), row, dbfail)

TryBody(m, row, dbfail) ==
    CASE m.l = "etl" -> EtlBody(m, row, dbfail)
      [] m.l = "md" -> MdBody(m, row, dbfail)
      [] m.l = "sd" -> SdBody(m, row, dbfail)

\* ------------------------------------------------------------ the load run
VARIABLES
    loader,            \* which loader runs
    rows,              \* the rows the input files may hold
    fails,             \* the statements at which the store may fail
    total,             \* len(df)
    left,              \* records that later input files may still hold
    store,             \* the durable store: what is committed
    view,              \* the store as the run's connection sees it
    failed,            \* the connection's transaction is in the failed state
    seq,               \* the SERIAL sequences (never rolled back)
    sectors_cache, companies_cache, periods_cache,
    idx, success, errors, skipped,
    pc,                \* "loop" | "break" | "done"
    run,               \* number of the load run
    ret,               \* history: the id each resolver returned last in this run, by key
    written,           \* history: statements inserted by records processed without error
    dimFailed          \* history: a resolver's storage access failed in this run

\* scripts/insert_extracted_data.py
VARIABLES
    existing_db,       \* TASI_financials_DB.csv: a sequence of rows
    hasDateCol,        \* the database file has an extraction_date column
    new_records, updated_records, duplicate_records,
    scanned,           \* rows of INSERT_READY.csv read by the loop
    ready,             \* len(new_data)
    readyLeft,         \* rows that later INSERT_READY.csv files may still hold
    upc,               \* "idle" | "scan" | "saved"
    arrived            \* history: the incoming rows, in arrival order

upsertVars ==
    <<existing_db, hasDateCol, new_records, updated_records, duplicate_records,
      scanned, ready, readyLeft, upc, arrived>>

\* workers that call the resolvers of one TASIDataMigrator
VARIABLES
    wpc,               \* per worker: "idle" | "cache" | "select" | "insert" | "store"
                       \*             | "done" | "raised"
    wkind,             \* per worker: "sector" | "company"
    wkey,              \* per worker: the natural key being resolved
    wid,               \* per worker: the local sector_id / company_id
    wret,              \* per worker: the id returned
    wleft              \* per worker: calls it may still start

raceVars == <<wpc, wkind, wkey, wid, wret, wleft>>

\* scripts/build_multipliers.py and scripts/normalize_units.py
VARIABLES
    df,                \* TASI_financials_DB.csv: a sequence of rows
    multipliers,       \* the multiplier map (unit_multipliers.json once saved)
    inferred,          \* history: the map before the manual additions
    normalized,        \* TASI_financials_normalized.csv
    passes,            \* runs of the normalization so far
    ustage             \* "idle" | "benchmark" | "rules" | "insurance" | "manual"
                       \*        | "saved" | "normalized"

unitVars == <<df, multipliers, inferred, normalized, passes, ustage>>

\* A call of a calculation of the derived-metrics scripts or of the validator:
\* its input, its output and whether it has returned.
VARIABLES arg, result, cpc

calcVars == <<arg, result, cpc>>

loadVars ==
    <<loader, rows, fails, total, left, store, view, failed, seq, sectors_cache,
      companies_cache, periods_cache, idx, success, errors, skipped, pc, run,
      ret, written, dimFailed>>

Machine ==
    [l |-> loader, view |-> view, failed |-> failed, seq |-> seq,
     sectors_cache |-> sectors_cache, companies_cache |-> companies_cache,
     periods_cache |-> periods_cache]

\* The input files of a behaviour are drawn from one of these families of rows,
\* together with the statements at which the store may fail.
Row(t, s, fy, pt, mo, f, d, sc) ==
    [ticker |-> t, sector |-> s, fy |-> fy, ptype |-> pt, month |-> mo,
     filing |-> f, data |-> d, score |-> sc]

TickerRows ==
    {Row(t, <<"A">>, 2024, "Annual", 0, <<>>, 1, "ok") :
        t \in {<<"1">>, <<"1", ".", "0">>, <<" ", "1", " ">>}}

DimensionRows ==
    {Row(<<"1">>, s, 2024, pt, mo, <<>>, 1, "ok") :
        s \in {<<"A">>, <<>>}, pt \in {"Annual", "Quarterly"}, mo \in {0, 2, 11}}
    \cup {Row(<<"2">>, <<"A">>, 2024, "Annual", 0, <<>>, 1, "ok")}

FailureRows ==
    {Row(<<"1">>, <<"A">>, fy, pt, 0, <<>>, 1, sc) :
        fy \in {2024, NaNYear}, pt \in {"Annual", "Quarterly"}, sc \in {"ok", "inf"}}

FilingRows ==
    {Row(t, <<>>, 2024, "Annual", 0, f, d, "ok") :
        t \in {<<"1">>, <<"2">>}, f \in {<<>>, <<"F">>}, d \in {1, 2}}

SectorNameRows ==
    {Row(c[1], c[2], 2024, "Annual", 0, <<>>, 1, "ok") :
        c \in {<<<<"1">>, <<"A">>>>, <<<<"2">>, <<"a">>>>, <<<<"3">>, <<" ", "A", " ">>>>}}

Inputs ==
    {[rows |-> SectorNameRows, fails |-> {"none"}],
     [rows |-> TickerRows, fails |-> {"none", "company_select"}],
     [rows |-> DimensionRows, fails |-> {"none", "sector_select"}],
     [rows |-> FailureRows, fails |-> {"none", "statement_insert", "metrics_insert"}],
     [rows |-> FilingRows, fails |-> {"none"}]}

EmptyRet == [sectors |-> EmptyMap, companies |-> EmptyMap, periods |-> EmptyMap]

\* conn.commit(): COMMIT of a failed transaction rolls it back.
Commit(m, st) == IF m.failed THEN st ELSE m.view

InitRun ==
    /\ store = EmptyTables
    /\ view = EmptyTables
    /\ failed = FALSE
    /\ seq = InitSeq
    /\ sectors_cache = EmptyMap
    /\ companies_cache = EmptyMap
    /\ periods_cache = EmptyMap
    /\ idx = 0 /\ success = 0 /\ errors = 0 /\ skipped = 0
    /\ pc = "loop"
    /\ run = 1
    /\ ret = EmptyRet
    /\ written = {}
    /\ dimFailed = FALSE

Workers == {"w1", "w2"}

\* No worker is calling a resolver.
RaceIdle ==
    /\ wpc = [w \in Workers |-> "idle"]
    /\ wkind = [w \in Workers |-> "sector"]
    /\ wkey = [w \in Workers |-> <<>>]
    /\ wid = [w \in Workers |-> Null]
    /\ wret = [w \in Workers |-> Null]
    /\ wleft = [w \in Workers |-> 0]

\* The unit scripts are not running.
UnitsIdle ==
    /\ df = <<>> /\ multipliers = <<>> /\ inferred = <<>> /\ normalized = <<>>
    /\ passes = 0 /\ ustage = "idle"

CalcIdle == arg = <<>> /\ result = <<>> /\ cpc = "idle"

\* The upsert script is not running.
UpsertIdle ==
    /\ existing_db = <<>> /\ hasDateCol = TRUE
    /\ new_records = <<>> /\ updated_records = <<>> /\ duplicate_records = <<>>
    /\ scanned = 0 /\ ready = 0 /\ readyLeft = 0
    /\ upc = "idle"
    /\ arrived = <<>>

\* The state after construction: an empty schema, a connection, empty caches.
Init ==
    /\ loader \in Loaders
    /\ \E in \in Inputs : rows = in.rows /\ fails = in.fails
    /\ total \in 1..MaxLoaded
    /\ left = MaxLoaded - total
    /\ InitRun
    /\ UpsertIdle
    /\ RaceIdle
    /\ UnitsIdle
    /\ CalcIdle

\* The except clause: the error is counted; run_migration also rolls back.
AfterError(m, st) ==
    IF m.l = "sd" THEN [m EXCEPT !.view = st, !.failed = FALSE] ELSE m

\* The batch commit that ends a successfully processed record.
BatchCommits(l, i) == l \in {"etl", "sd"} /\ (i + 1) % BatchSize = 0

AfterSuccess(m, st, i) ==
    IF BatchCommits(m.l, i)
    THEN [m EXCEPT !.view = Commit(m, st), !.failed = FALSE]
    ELSE m

\* if errors > 100: break (the ETL migrator only)
Aborts(l, nerrors) == l = "etl" /\ nerrors > ErrorCap

\* The except clause or the end of the try block, applied to the body's result.
AfterBody(b, st, i) ==
    IF b.outcome = "success" THEN AfterSuccess(b.m, st, i)
    ELSE IF b.outcome = "error" THEN AfterError(b.m, st)
    ELSE b.m

\* The committed rows with the batch commit placed after the try statement, so
\* that it also runs for a record that failed.
CommittedAlsoOnError(l, outcome, i, m2, st) ==
    IF l = "md" THEN m2.view
    ELSE IF BatchCommits(l, i) THEN Commit(m2, st)
    ELSE st

\* The committed rows after one iteration: an autocommit connection commits every
\* statement; the others commit at the batch commit of a successful record.
Committed(l, outcome, i, m2, st) ==
    IF l = "md" THEN m2.view
    ELSE IF outcome = "success" /\ BatchCommits(l, i) THEN m2.view
    ELSE st

\* The state after one iteration, given the body's result b and the machine state
\* m2 that the except clause or the batch commit leaves.
Iterated(b, m2, row) ==
    /\ view' = m2.view
    /\ failed' = m2.failed
    /\ seq' = m2.seq
    /\ sectors_cache' = m2.sectors_cache
    /\ companies_cache' = m2.companies_cache
    /\ periods_cache' = m2.periods_cache
    /\ store' = Committed(loader, b.outcome, idx, m2, store)
    /\ success' = IF b.outcome = "success" THEN success + 1 ELSE success
    /\ skipped' = IF b.outcome = "skipped" THEN skipped + 1 ELSE skipped
    /\ errors' = IF b.outcome = "error" THEN errors + 1 ELSE errors
    /\ idx' = idx + 1
    /\ pc' = IF b.outcome = "error" /\ Aborts(loader, errors + 1) THEN "break" ELSE "loop"
    /\ ret' =
         [sectors |-> IF b.c.sec.id # Null
                      THEN Put(ret.sectors, SectorKey(loader, row.sector), b.c.sec.id)
                      ELSE ret.sectors,
          companies |-> IF b.c.id # Null
                        THEN Put(ret.companies, TickerKey(loader, row.ticker), b.c.id)
                        ELSE ret.companies,
          periods |-> IF b.p.id # Null
                      THEN Put(ret.periods, PeriodKey(row), b.p.id)
                      ELSE ret.periods]
    /\ written' = IF b.outcome = "success" /\ b.wrote
                  THEN written \cup {b.sid} ELSE written
    /\ dimFailed' = (dimFailed \/ b.c.err \/ (b.p.err /\ row.fy # NaNYear))

Iterate(b, row) == Iterated(b, AfterBody(b, store, idx), row)

\* One iteration of "for idx, row in df.iterrows()".
ProcessRecord(row, dbfail) ==
    /\ pc = "loop"
    /\ idx < total
    /\ Iterate(TryBody(Machine, row, dbfail), row)
    /\ UNCHANGED <<loader, rows, fails, total, left, run>>
    /\ UNCHANGED <<upsertVars, raceVars, unitVars, calcVars>>

\* The final commit and the summary only when the loop ran to its end: the
\* error-cap abort leaves the function.
FinishUnlessAborted ==
    /\ pc = "loop" /\ idx = total
    /\ pc' = "done"
    /\ store' = IF loader = "md" THEN view ELSE Commit(Machine, store)
    /\ view' = store'
    /\ failed' = FALSE
    /\ UNCHANGED <<loader, rows, fails, total, left, seq, sectors_cache,
                   companies_cache, periods_cache, idx, success, errors, skipped,
                   run, ret, written, dimFailed>>
    /\ UNCHANGED <<upsertVars, raceVars, unitVars, calcVars>>

\* The loop has ended: the final commit and the completion summary.
Finish ==
    /\ pc \in {"loop", "break"}
    /\ pc = "loop" => idx = total
    /\ pc' = "done"
    /\ store' = IF loader = "md" THEN view ELSE Commit(Machine, store)
    /\ view' = store'
    /\ failed' = FALSE
    /\ UNCHANGED <<loader, rows, fails, total, left, seq, sectors_cache,
                   companies_cache, periods_cache, idx, success, errors, skipped,
                   run, ret, written, dimFailed>>
    /\ UNCHANGED <<upsertVars, raceVars, unitVars, calcVars>>

\* The loader is started again on the same store: a new process, empty caches.
StartRun ==
    /\ pc = "done"
    /\ left > 0
    /\ run' = run + 1
    /\ total' \in 1..left
    /\ left' = left - total'
    /\ pc' = "loop"
    /\ sectors_cache' = EmptyMap
    /\ companies_cache' = EmptyMap
    /\ periods_cache' = EmptyMap
    /\ idx' = 0 /\ success' = 0 /\ errors' = 0 /\ skipped' = 0
    /\ ret' = EmptyRet
    /\ written' = {}
    /\ dimFailed' = FALSE
    /\ UNCHANGED <<loader, rows, fails, store, view, failed, seq>>
    /\ UNCHANGED <<upsertVars, raceVars, unitVars, calcVars>>

Next ==
    \/ \E row \in rows, dbfail \in fails : ProcessRecord(row, dbfail)
    \/ Finish
    \/ StartRun

vars == <<loadVars, upsertVars, raceVars, unitVars, calcVars>>

Spec == Init /\ [][Next]_vars

\* ------------------------------------- SpecUpsert: insert_extracted_data.py
\* pd.to_datetime(..., errors='coerce') of a missing or unparseable date
NaT == 0
\* '2000-01-01', the date taken for a stored record when the database file has no
\* extraction_date column
DefaultDate == 1

ExtractionDates == {NaT, 1, 2, 3}

UpsertTickers == {1010, 2222}

\* existing_db[(ticker == ...) & (fiscal_year == ...) & (period_type == ...)]
ExistingMatch(db, new_row) ==
    {i \in 1..Len(db) :
        /\ db[i].ticker = new_row.ticker
        /\ db[i].fiscal_year = new_row.fiscal_year
        /\ db[i].period_type = new_row.period_type}

\* existing_match.index[0]
FirstMatch(db, new_row) ==
    CHOOSE i \in ExistingMatch(db, new_row) : \A j \in ExistingMatch(db, new_row) : i <= j

\* pd.to_datetime(existing_match.iloc[0].get('extraction_date', '2000-01-01'))
ExistingDate(db, hasCol, new_row) ==
    IF hasCol THEN db[FirstMatch(db, new_row)].extraction_date ELSE DefaultDate

\* The freshness comparison with ">=" in place of ">".
IsNewerOrEqual(new_date, existing_date) ==
    new_date # NaT /\ existing_date # NaT /\ new_date >= existing_date

\* pd.notna(new_date) and pd.notna(existing_date) and new_date > existing_date
IsNewer(new_date, existing_date) ==
    new_date # NaT /\ existing_date # NaT /\ new_date > existing_date

\* A row as the database file keeps it: only the file's own columns.
AsStored(hasCol, new_row) ==
    IF hasCol THEN new_row ELSE [new_row EXCEPT !.extraction_date = NaT]

NewRows ==
    [ticker : UpsertTickers, fiscal_year : {2024}, period_type : {"Annual"},
     extraction_date : ExtractionDates]

\* The database file before the first run: empty, or one record.
InitialDbs(hasCol) ==
    {<<>>} \cup
    {<<[ticker |-> 1010, fiscal_year |-> 2024, period_type |-> "Annual",
        extraction_date |-> d, data |-> 0]>> :
        d \in IF hasCol THEN {NaT, 2} ELSE {NaT}}

LoadIdle ==
    /\ loader = "etl" /\ rows = {} /\ fails = {} /\ total = 0 /\ left = 0
    /\ store = EmptyTables /\ view = EmptyTables /\ failed = FALSE /\ seq = InitSeq
    /\ sectors_cache = EmptyMap /\ companies_cache = EmptyMap /\ periods_cache = EmptyMap
    /\ idx = 0 /\ success = 0 /\ errors = 0 /\ skipped = 0
    /\ pc = "idle" /\ run = 0 /\ ret = EmptyRet /\ written = {} /\ dimFailed = FALSE

InitUpsert ==
    /\ LoadIdle
    /\ RaceIdle
    /\ UnitsIdle
    /\ CalcIdle
    /\ hasDateCol \in BOOLEAN
    /\ existing_db \in InitialDbs(hasDateCol)
    /\ new_records = <<>> /\ updated_records = <<>> /\ duplicate_records = <<>>
    /\ scanned = 0
    /\ ready \in 1..MaxInserted
    /\ readyLeft = MaxInserted - ready
    /\ upc = "scan"
    /\ arrived = <<>>

\* One iteration of "for idx, new_row in new_data_enhanced.iterrows()"; the row's
\* payload is named by its place in the arrival order.
UpsertRow(r) ==
    /\ upc = "scan"
    /\ scanned < ready
    /\ LET new_row == r @@ [data |-> Len(arrived) + 1] IN
       /\ arrived' = Append(arrived, new_row)
       /\ IF ExistingMatch(existing_db, new_row) = {}
          THEN /\ new_records' = Append(new_records, new_row)
               /\ UNCHANGED <<existing_db, updated_records, duplicate_records>>
          ELSE IF IsNewer(new_row.extraction_date,
                          ExistingDate(existing_db, hasDateCol, new_row))
          THEN /\ existing_db' =
                    [existing_db EXCEPT ![FirstMatch(existing_db, new_row)] =
                        AsStored(hasDateCol, new_row)]
               /\ updated_records' = Append(updated_records, new_row)
               /\ UNCHANGED <<new_records, duplicate_records>>
          ELSE /\ duplicate_records' = Append(duplicate_records, new_row)
               /\ UNCHANGED <<existing_db, new_records, updated_records>>
    /\ scanned' = scanned + 1
    /\ UNCHANGED <<hasDateCol, ready, readyLeft, upc>>
    /\ UNCHANGED <<loadVars, raceVars, unitVars, calcVars>>

\* The new records are appended and the database file is saved.
SaveDb ==
    /\ upc = "scan"
    /\ scanned = ready
    /\ existing_db' =
         existing_db \o [i \in 1..Len(new_records) |-> AsStored(hasDateCol, new_records[i])]
    /\ upc' = "saved"
    /\ UNCHANGED <<hasDateCol, new_records, updated_records, duplicate_records,
                   scanned, ready, readyLeft, arrived>>
    /\ UNCHANGED <<loadVars, raceVars, unitVars, calcVars>>

\* The script is run again, on the saved database file and a new INSERT_READY.csv.
RunAgain ==
    /\ upc = "saved"
    /\ readyLeft > 0
    /\ ready' \in 1..readyLeft
    /\ readyLeft' = readyLeft - ready'
    /\ new_records' = <<>> /\ updated_records' = <<>> /\ duplicate_records' = <<>>
    /\ scanned' = 0
    /\ upc' = "scan"
    /\ UNCHANGED <<existing_db, hasDateCol, arrived>>
    /\ UNCHANGED <<loadVars, raceVars, unitVars, calcVars>>

NextUpsert ==
    \/ \E r \in NewRows : UpsertRow(r)
    \/ SaveDb
    \/ RunAgain

SpecUpsert == InitUpsert /\ [][NextUpsert]_vars

\* ------------------- SpecRace: two workers on one migrator's resolvers
\* The resolvers of 02_etl_migrate.py, one step per statement, called by two
\* workers that share the migrator: its caches, its cursor and its transaction.
RaceSectors == {<<"A">>, <<"B">>}
RaceTickers == {<<"1">>, <<"2">>}

RaceKeys(kind) == IF kind = "sector" THEN RaceSectors ELSE RaceTickers

InitRace ==
    /\ loader = "etl" /\ rows = {} /\ fails = {} /\ total = 0 /\ left = 0
    /\ store = EmptyTables /\ view = EmptyTables /\ failed = FALSE /\ seq = InitSeq
    /\ sectors_cache = EmptyMap /\ companies_cache = EmptyMap /\ periods_cache = EmptyMap
    /\ idx = 0 /\ success = 0 /\ errors = 0 /\ skipped = 0
    /\ pc = "race" /\ run = 1 /\ ret = EmptyRet /\ written = {} /\ dimFailed = FALSE
    /\ UpsertIdle
    /\ UnitsIdle
    /\ CalcIdle
    /\ wpc = [w \in Workers |-> "idle"]
    /\ wkind = [w \in Workers |-> "sector"]
    /\ wkey = [w \in Workers |-> <<>>]
    /\ wid = [w \in Workers |-> Null]
    /\ wret = [w \in Workers |-> Null]
    /\ wleft = [w \in Workers |-> MaxCalls]

RaceUnchanged ==
    UNCHANGED <<loader, rows, fails, total, left, store, periods_cache, idx, success,
                errors, skipped, pc, run, ret, written, dimFailed, upsertVars,
                unitVars, calcVars>>

\* A worker calls get_or_create_sector(name) or get_or_create_company(row); the
\* row names no sector.
Call(w, kind, key) ==
    /\ pc = "race"
    /\ wpc[w] \in {"idle", "done", "raised"}
    /\ wleft[w] > 0
    /\ wleft' = [wleft EXCEPT ![w] = @ - 1]
    /\ wpc' = [wpc EXCEPT ![w] = "cache"]
    /\ wkind' = [wkind EXCEPT ![w] = kind]
    /\ wkey' = [wkey EXCEPT ![w] = key]
    /\ wid' = [wid EXCEPT ![w] = Null]
    /\ wret' = [wret EXCEPT ![w] = Null]
    /\ UNCHANGED <<view, failed, seq, sectors_cache, companies_cache>>
    /\ RaceUnchanged

CacheOf(kind) == IF kind = "sector" THEN sectors_cache ELSE companies_cache

\* if key in self.<kind>_cache: return self.<kind>_cache[key]
CheckCache(w) ==
    /\ wpc[w] = "cache"
    /\ IF wkey[w] \in DOMAIN CacheOf(wkind[w])
       THEN /\ wret' = [wret EXCEPT ![w] = CacheOf(wkind[w])[wkey[w]]]
            /\ wpc' = [wpc EXCEPT ![w] = "done"]
       ELSE /\ wpc' = [wpc EXCEPT ![w] = "select"]
            /\ UNCHANGED wret
    /\ UNCHANGED <<wkind, wkey, wid, wleft, view, failed, seq, sectors_cache, companies_cache>>
    /\ RaceUnchanged

RowsOf(kind, key) ==
    IF kind = "sector" THEN {r \in view.sectors : r.name = key}
    ELSE {r \in view.companies : r.ticker = key}

\* self.<kind>_cache[key] = id
Cached(kind, key, id) ==
    /\ sectors_cache' = IF kind = "sector" THEN Put(sectors_cache, key, id) ELSE sectors_cache
    /\ companies_cache' = IF kind = "company" THEN Put(companies_cache, key, id)
                          ELSE companies_cache

\* SELECT ... WHERE key = %s; result = fetchone(); if result: cache it, return it
Select(w) ==
    /\ wpc[w] = "select"
    /\ IF failed
       THEN /\ wpc' = [wpc EXCEPT ![w] = "raised"]
            /\ UNCHANGED <<wret, sectors_cache, companies_cache>>
       ELSE IF RowsOf(wkind[w], wkey[w]) # {}
       THEN /\ Cached(wkind[w], wkey[w], FirstId(RowsOf(wkind[w], wkey[w])))
            /\ wret' = [wret EXCEPT ![w] = FirstId(RowsOf(wkind[w], wkey[w]))]
            /\ wpc' = [wpc EXCEPT ![w] = "done"]
       ELSE /\ wpc' = [wpc EXCEPT ![w] = "insert"]
            /\ UNCHANGED <<wret, sectors_cache, companies_cache>>
    /\ UNCHANGED <<wkind, wkey, wid, wleft, view, failed, seq>>
    /\ RaceUnchanged

\* INSERT ... RETURNING id; id = fetchone()[0]
Insert(w) ==
    /\ wpc[w] = "insert"
    /\ IF failed
       THEN /\ wpc' = [wpc EXCEPT ![w] = "raised"]
            /\ UNCHANGED <<wid, view, failed, seq>>
       ELSE IF wkind[w] = "sector"
       THEN /\ view' = [view EXCEPT !.sectors =
                           @ \cup {[id |-> seq.sectors, name |-> wkey[w]]}]
            /\ seq' = [seq EXCEPT !.sectors = @ + 1]
            /\ wid' = [wid EXCEPT ![w] = seq.sectors]
            /\ wpc' = [wpc EXCEPT ![w] = "store"]
            /\ UNCHANGED failed
       ELSE IF CompanyInsertViolates(Machine, wkey[w], Null)
       THEN /\ seq' = [seq EXCEPT !.companies = @ + 1]
            /\ failed' = TRUE
            /\ wpc' = [wpc EXCEPT ![w] = "raised"]
            /\ UNCHANGED <<wid, view>>
       ELSE /\ view' = [view EXCEPT !.companies =
                           @ \cup {[id |-> seq.companies, ticker |-> wkey[w],
                                    sector_id |-> Null]}]
            /\ seq' = [seq EXCEPT !.companies = @ + 1]
            /\ wid' = [wid EXCEPT ![w] = seq.companies]
            /\ wpc' = [wpc EXCEPT ![w] = "store"]
            /\ UNCHANGED failed
    /\ UNCHANGED <<wkind, wkey, wret, wleft, sectors_cache, companies_cache>>
    /\ RaceUnchanged

\* self.<kind>_cache[key] = id; return id
Store(w) ==
    /\ wpc[w] = "store"
    /\ Cached(wkind[w], wkey[w], wid[w])
    /\ wret' = [wret EXCEPT ![w] = wid[w]]
    /\ wpc' = [wpc EXCEPT ![w] = "done"]
    /\ UNCHANGED <<wkind, wkey, wid, wleft, view, failed, seq>>
    /\ RaceUnchanged

NextRace ==
    \/ \E w \in Workers, kind \in {"sector", "company"} :
          \E key \in RaceKeys(kind) : Call(w, kind, key)
    \/ \E w \in Workers : CheckCache(w)
    \/ \E w \in Workers : Select(w)
    \/ \E w \in Workers : Insert(w)
    \/ \E w \in Workers : Store(w)

SpecRace == InitRace /\ [][NextRace]_vars

\* ------------------------------------------------------- SpecCap: long runs
\* A run long enough for the error cap: one input file of ErrorCap + 2 rows, read
\* by the loader with the cap or by a loader without it, on a store that works.
CapRows ==
    {Row(<<"1">>, <<"A">>, fy, "Annual", 0, <<>>, 1, "ok") : fy \in {2024, NaNYear}}

InitCap ==
    /\ loader \in {"etl", "md"}
    /\ rows = CapRows
    /\ fails = {"none"}
    /\ total = ErrorCap + 2
    /\ left = 1
    /\ InitRun
    /\ UpsertIdle
    /\ RaceIdle
    /\ UnitsIdle
    /\ CalcIdle

SpecCap == InitCap /\ [][Next]_vars

\* The loop takes its next record: a step of ProcessRecord.
LoopStep == \E row \in rows, dbfail \in fails : ProcessRecord(row, dbfail)

\* ENABLED <<LoopStep>>_vars, written out: the try block of every loader yields
\* a next state for every row, and the step advances idx.
LoopStepEnabled == pc = "loop" /\ idx < total /\ rows # {} /\ fails # {}

\* A started loader keeps executing: the loop takes its next record while one
\* is left (WF_vars(LoopStep), with its ENABLED written out), and the statements
\* after the loop run once the loop has ended.
LoopFairness ==
    /\ ([]<>(~LoopStepEnabled) \/ []<><<LoopStep>>_vars)
    /\ WF_vars(Finish)

\* A run that crosses a batch boundary, over an input in which at most
\* MaxFailures records fail.
InitBatch ==
    /\ loader \in {"etl", "sd"}
    /\ rows = CapRows
    /\ fails = {"none", "statement_select"}
    /\ total = BatchSize + 2
    /\ left = 0
    /\ InitRun
    /\ UpsertIdle
    /\ RaceIdle
    /\ UnitsIdle
    /\ CalcIdle

NextBatch ==
    \/ \E row \in rows, dbfail \in fails :
          ProcessRecord(row, dbfail) /\ errors' <= MaxFailures
    \/ Finish

SpecBatch == InitBatch /\ [][NextBatch]_vars

InitLive == Init \/ InitCap

SpecLive == InitLive /\ [][Next]_vars /\ LoopFairness

\* --------------------------------------------------------------- the claims
SectorRows(t, k) == {r \in t.sectors : r.name = k}
CompanyRows(t, k) == {r \in t.companies : r.ticker = k}
PeriodRows(t, k) == {r \in t.periods : <<r.year, r.quarter>> = k}

\* A resolve of key k whose result is id': it repeats the id returned before in
\* this run, it is the id of the key's row when the store has one, and in both
\* cases it creates no row for the key.
SameId(before, after, rowsBefore, rowsAfter) ==
    \A k \in DOMAIN after :
        /\ k \in DOMAIN before => after[k] = before[k]
        /\ \A r \in rowsBefore[k] : after[k] = r.id
        /\ (k \in DOMAIN before \/ rowsBefore[k] # {}) => rowsAfter[k] \subseteq rowsBefore[k]
        /\ Cardinality(rowsAfter[k]) <= 1

\* C1: resolving the same natural key (sector name, ticker, (year, quarter)) twice
\* yields the same surrogate id, in the same run (the id returned before) and in a
\* fresh run on the same store (the id of the stored row), and creates no second
\* dimension row for the key.
C1_ResolveIdempotent ==
    [][idx' = idx + 1 =>
        /\ SameId(ret.sectors, ret'.sectors,
                  [k \in DOMAIN ret'.sectors |-> SectorRows(view, k)],
                  [k \in DOMAIN ret'.sectors |-> SectorRows(view', k)])
        /\ SameId(ret.companies, ret'.companies,
                  [k \in DOMAIN ret'.companies |-> CompanyRows(view, k)],
                  [k \in DOMAIN ret'.companies |-> CompanyRows(view', k)])
        /\ SameId(ret.periods, ret'.periods,
                  [k \in DOMAIN ret'.periods |-> PeriodRows(view, k)],
                  [k \in DOMAIN ret'.periods |-> PeriodRows(view', k)])]_vars

\* A fresh ETL run has resolved, from the store and then from the cache, the one
\* company (and its sector) that the run before created and committed.
C1_Witness ==
    /\ loader = "etl" /\ run = 2 /\ idx = 2 /\ errors = 0 /\ pc = "loop"
    /\ DOMAIN ret.companies # {}
    /\ Cardinality(store.companies) = 1 /\ seq.companies = 2
    /\ \A k \in DOMAIN ret.companies : \E r \in store.companies : r.id = ret.companies[k]

\* C2: the store, committed or as the connection sees it, holds at most one
\* Statement row for each (company_id, period_id).
C2_OneStatementPerKey ==
    \A t \in {store, view} :
        \A s1, s2 \in t.statements :
            (s1.company_id = s2.company_id /\ s1.period_id = s2.period_id) => s1 = s2

\* Two records for one (company, period) were processed without error and one
\* Statement row was ever inserted.
C2_Witness ==
    /\ idx = 2 /\ errors = 0 /\ run = 1
    /\ Cardinality(view.statements) = 1 /\ seq.statements = 2
    /\ Cardinality(view.companies) = 1 /\ Cardinality(view.periods) = 1

\* The canonical ticker: trimmed, a trailing ".0" stripped.
Canonical(raw) ==
    LET t == Strip(raw) IN IF EndsWithDotZero(t) THEN SubSeq(t, 1, Len(t) - 2) ELSE t

\* C5: tickers that differ only by surrounding whitespace or a trailing ".0"
\* resolve to one Company: no two Company rows have the same canonical ticker.
C5_OneCompanyPerCanonicalTicker ==
    \A c1, c2 \in view.companies :
        Canonical(c1.ticker) = Canonical(c2.ticker) => c1 = c2

\* C7: at the end of a load run every Statement row in the store has exactly one
\* Metrics row.
C7_OneMetricsPerStatement ==
    pc = "done" =>
        \A st \in store.statements :
            Cardinality({x \in store.metrics : x.statement_id = st.id}) = 1

\* C8: a record's failure does not abort the batch: at the end of the run every
\* record has been processed and the Statement rows written by the records that
\* were processed without error are in the store.
C8_FailureKeepsOtherWrites ==
    pc = "done" =>
        /\ idx = total
        /\ written \subseteq {st.id : st \in store.statements}

\* C9: a load run aborts once its count of per-record failures exceeds the cap:
\* the failure that takes the count past the cap is the last record processed.
C9_AbortPastErrorCap == errors <= ErrorCap + 1

\* C10: a storage failure inside a resolver is fatal: once one has happened, the
\* run processes no further record.
C10_ResolutionErrorIsFatal == [][dimFailed => idx' # idx + 1]_vars

\* ---------------------------------------------------------------- C3, C4
SameKey(a, b) ==
    a.ticker = b.ticker /\ a.fiscal_year = b.fiscal_year /\ a.period_type = b.period_type

\* The outcome of one upsert step on a stored record at place i whose date is
\* taken to be d: replaced in place exactly when the incoming date is strictly
\* newer, otherwise untouched and counted as a duplicate.
ReplacedIffNewer(i, d) ==
    LET new == arrived'[Len(arrived')] IN
    IF new.extraction_date # NaT /\ d # NaT /\ new.extraction_date > d
    THEN /\ Len(existing_db') = Len(existing_db)
         /\ \A j \in 1..Len(existing_db) :
               IF j = i
               THEN /\ existing_db'[j].data = new.data
                    /\ SameKey(existing_db'[j], new)
               ELSE existing_db'[j] = existing_db[j]
         /\ updated_records' = Append(updated_records, new)
         /\ duplicate_records' = duplicate_records
         /\ new_records' = new_records
    ELSE /\ existing_db' = existing_db
         /\ duplicate_records' = Append(duplicate_records, new)
         /\ updated_records' = updated_records
         /\ new_records' = new_records

\* The first stored record with the key of the row that arrives in this step.
StoredMatch(i) ==
    /\ i \in 1..Len(existing_db)
    /\ SameKey(existing_db[i], arrived'[Len(arrived')])
    /\ \A j \in 1..(i - 1) : ~SameKey(existing_db[j], arrived'[Len(arrived')])

C4_OneRowWithNewestData ==
    (/\ upc = "saved"
     /\ Len(arrived) = 2
     /\ arrived[1].ticker = 2222 /\ arrived[2].ticker = 2222
     /\ arrived[1].extraction_date # NaT /\ arrived[2].extraction_date # NaT
     /\ arrived[1].extraction_date # arrived[2].extraction_date)
    => LET newest == IF arrived[1].extraction_date > arrived[2].extraction_date
                     THEN arrived[1] ELSE arrived[2]
       IN  /\ Cardinality({i \in 1..Len(existing_db) : existing_db[i].ticker = 2222}) = 1
           /\ \A i \in 1..Len(existing_db) :
                 existing_db[i].ticker = 2222 => existing_db[i].data = newest.data

\* -------------------------------------------------------------------- C6
\* C6: when two workers have resolved the same key, with their steps
\* interleaved in any order, both have obtained the same id and exactly one
\* dimension row exists for the key.
C6_ConcurrentResolveSameId ==
    \A w1, w2 \in Workers :
        (/\ w1 # w2
         /\ wpc[w1] \in {"done", "raised"} /\ wpc[w2] \in {"done", "raised"}
         /\ wkind[w1] = wkind[w2] /\ wkey[w1] = wkey[w2])
        => /\ wret[w1] # Null
           /\ wret[w1] = wret[w2]
           /\ Cardinality(RowsOf(wkind[w1], wkey[w1])) = 1

\* ------------------------------------------------------------------- C11
\* C11: every load run that is processing records eventually emits its
\* completion summary, whatever the number of per-record failures, and also
\* after the error-cap abort.
C11_SummaryEmitted == (pc \in {"loop", "break"}) ~> (pc = "done")

\* The error-cap abort fired and the summary was emitted.
C11_Witness == pc = "done" /\ loader = "etl" /\ errors = ErrorCap + 1 /\ idx < total

\* ------------------------------------------------------------------- C12
Tables == {"sectors", "companies", "periods", "statements", "metrics"}

\* C12: a failure while processing a record never changes rows committed at an
\* earlier batch boundary: the committed rows are the same before and after the
\* failure is handled, and the connection still sees every one of them.
C12_FailureKeepsCommitted ==
    [][errors' = errors + 1 =>
        /\ store' = store
        /\ \A t \in Tables : store[t] \subseteq view'[t]]_vars

\* A record failed after the batch commit at the 500th record had committed rows.
C12_Witness ==
    /\ idx > BatchSize /\ errors >= 1 /\ success >= BatchSize
    /\ store.statements # {} /\ store.metrics # {}

\* ---------- SpecUnits: scripts/build_multipliers.py, scripts/normalize_units.py
\* A monetary cell is NaN, or <<n, e>> for the number n * 1000^e; the cells of
\* the input file have e = 0.
NaN == <<>>

Amount(n) == <<n, 0>>

\* pd.notna(v)
NotNa(v) == v # NaN

\* val * multiplier
Times(v, multiplier) ==
    <<v[1], v[2] + (IF multiplier = 1000000 THEN 2 ELSE IF multiplier = 1000 THEN 1 ELSE 0)>>

MONETARY_COLUMNS ==
    {"revenue", "cost_of_sales", "gross_profit", "operating_profit", "net_profit",
     "interest_expense", "total_assets", "total_equity", "total_liabilities",
     "current_assets", "current_liabilities", "inventory", "receivables",
     "operating_cash_flow", "capex", "free_cash_flow", "working_capital",
     "gross_profit_calc", "total_liabilities_calc", "free_cash_flow_calc",
     "working_capital_calc", "capex_adjusted"}

MILLIONS_COLUMNS ==
    {"revenue_millions", "net_profit_millions", "total_assets_millions",
     "total_equity_millions"}

\* A column that is neither monetary nor "in millions".
OtherColumns == {"shares_outstanding"}

Columns == MONETARY_COLUMNS \cup MILLIONS_COLUMNS \cup OtherColumns

\* known_revenues: ticker -> expected revenue in units of 100 million SAR
\* (expected_billions * 10).
known_revenues ==
    2222 :> 16000 @@ 2010 :> 1750 @@ 7010 :> 760 @@ 5110 :> 890 @@
    1180 :> 500 @@ 7020 :> 180 @@ 7030 :> 100 @@ 2280 :> 210 @@
    2050 :> 240 @@ 1211 :> 330 @@ 4013 :> 110 @@ 2380 :> 390 @@ 4164 :> 94 @@
    4200 :> 190 @@ 4050 :> 100

ManualMillions == {2222, 4013}

ManualThousands ==
    {2010, 7010, 5110, 7020, 7030, 2280, 2050, 2380, 2290, 2310, 2330, 2060,
     2082, 2083, 2020, 4001, 4003, 4030, 4100, 4190, 4250, 2170, 2223, 2230,
     2240, 4017, 4031, 4300, 4006, 2270, 1302, 1303, 4020, 4260, 6015, 4263,
     3030, 2070, 4040, 2040, 2190, 3080, 2200, 2283, 3040, 3010, 1214, 2140,
     4130, 4140, 4170, 6020, 7202}

\* manual_additions[t]
ManualEntry(t) ==
    IF t \in ManualMillions THEN [multiplier |-> 1000000, unit |-> "millions"]
    ELSE [multiplier |-> 1000, unit |-> "thousands"]

manual_additions == [t \in ManualMillions \cup ManualThousands |-> ManualEntry(t)]

\* annual_df.sort_values('fiscal_year').groupby('ticker').last(): for each ticker
\* with an annual row, each column's last value that is not NaN.
AnnualRows(d, t) == {i \in 1..Len(d) : d[i].ticker = t /\ d[i].is_annual}

LastNotNa(d, t, col) ==
    LET has == {i \in AnnualRows(d, t) : NotNa(d[i].val[col])} IN
    IF has = {} THEN NaN
    ELSE d[CHOOSE i \in has : \A j \in has : d[j].fiscal_year <= d[i].fiscal_year].val[col]

latest_annual(d) ==
    [t \in {d[i].ticker : i \in {j \in 1..Len(d) : d[j].is_annual /\ d[j].ticker # Null}} |->
        [revenue |-> LastNotNa(d, t, "revenue"),
         total_assets |-> LastNotNa(d, t, "total_assets")]]

\* row[col] if pd.notna(row[col]) else 0
OrZero(v) == IF NotNa(v) THEN v[1] ELSE 0

Millions == [multiplier |-> 1000000, unit |-> "millions"]
Thousands == [multiplier |-> 1000, unit |-> "thousands"]
Sar == [multiplier |-> 1, unit |-> "SAR"]

\* The benchmark classification of ratio = expected / actual, for an expected
\* revenue of e10 * 10^8 SAR: 500_000 < ratio < 2_000_000 is millions,
\* 500 < ratio < 2_000 is thousands (ratio = 0 when actual is not positive).
Classify(e10, actual) ==
    IF actual > 0 /\ actual < e10 * 200 /\ e10 * 50 < actual THEN Millions
    ELSE IF actual > 0 /\ actual < e10 * 200000 /\ e10 * 50000 < actual THEN Thousands
    ELSE Sar

\* multipliers.update(new)
Merge(m, new) ==
    [t \in DOMAIN m \cup DOMAIN new |-> IF t \in DOMAIN new THEN new[t] ELSE m[t]]

\* for ticker, info in known_revenues.items(): ... if multiplier != 1: record it
BenchmarkFound(la) ==
    {t \in DOMAIN known_revenues \cap DOMAIN la :
        /\ OrZero(la[t].revenue) # 0
        /\ Classify(known_revenues[t], OrZero(la[t].revenue)).multiplier # 1}

BenchmarkLoop(m, la) ==
    Merge(m, [t \in BenchmarkFound(la) |->
                 Classify(known_revenues[t], OrZero(la[t].revenue))])

\* The patterns with pattern 2 not looking at total_assets / revenue.
PatternWithoutRatio(revenue, total_assets) ==
    IF revenue < 50000 /\ total_assets > 1000000 THEN Millions
    ELSE IF 50000 <= revenue /\ revenue < 1000000000 THEN Thousands
    ELSE Sar

\* The two patterns of the loop over all companies.
Pattern(revenue, total_assets) ==
    IF revenue < 50000 /\ total_assets > 1000000 THEN Millions
    ELSE IF 50000 <= revenue /\ revenue < 1000000000
            /\ total_assets > 0 /\ total_assets > 100 * revenue THEN Thousands
    ELSE Sar

RuleFound(m, la) ==
    {t \in DOMAIN la \ DOMAIN m :
        /\ OrZero(la[t].revenue) > 0
        /\ Pattern(OrZero(la[t].revenue), OrZero(la[t].total_assets)).multiplier # 1}

RuleLoop(m, la) ==
    Merge(m, [t \in RuleFound(m, la) |->
                 Pattern(OrZero(la[t].revenue), OrZero(la[t].total_assets))])

\* Insurance companies (8xxx) with 0 < revenue < 100M report in thousands.
InsuranceFound(m, la) ==
    {t \in DOMAIN la \ DOMAIN m :
        /\ 8000 <= t /\ t < 9000
        /\ 0 < OrZero(la[t].revenue) /\ OrZero(la[t].revenue) < 100000000}

InsuranceLoop(m, la) == Merge(m, [t \in InsuranceFound(m, la) |-> Thousands])

\* The manual additions entered only for tickers that no layer has an entry for.
ManualLoopKeepsInferred(m) == Merge(manual_additions, m)

\* for ticker, info in manual_additions.items(): multipliers[ticker] = info
ManualLoop(m) == Merge(m, manual_additions)

\* normalize_data without the loop over MILLIONS_COLUMNS.
NormalizeRowMonetaryOnly(row, m) ==
    IF row.ticker # Null /\ row.ticker \in DOMAIN m
    THEN [row EXCEPT !.val =
            [c \in Columns |->
                IF c \in MONETARY_COLUMNS /\ NotNa(row.val[c]) /\ row.val[c][1] # 0
                THEN Times(row.val[c], m[row.ticker].multiplier)
                ELSE row.val[c]]]
    ELSE row

\* One row of normalize_data.
NormalizeRow(row, m) ==
    IF row.ticker # Null /\ row.ticker \in DOMAIN m
    THEN [row EXCEPT !.val =
            [c \in Columns |->
                IF c \in MONETARY_COLUMNS \cup MILLIONS_COLUMNS
                   /\ NotNa(row.val[c]) /\ row.val[c][1] # 0
                THEN Times(row.val[c], m[row.ticker].multiplier)
                ELSE row.val[c]]]
    ELSE row

normalize_data(d, m) == [i \in 1..Len(d) |-> NormalizeRow(d[i], m)]

\* One row of add_normalization_metadata.
MetadataRow(row, m) ==
    IF row.ticker # Null /\ row.ticker \in DOMAIN m
    THEN [original_unit |-> m[row.ticker].unit, was_normalized |-> TRUE,
          normalization_multiplier |-> m[row.ticker].multiplier] @@ row
    ELSE [original_unit |-> "SAR", was_normalized |-> FALSE,
          normalization_multiplier |-> 1] @@ row

add_normalization_metadata(d, m) == [i \in 1..Len(d) |-> MetadataRow(d[i], m)]

\* The input datasets of the unit scripts: the rows of one or two fiscal years
\* of one company of TASI_financials_DB.csv.
MaxPasses == 2
UnitTickers == {Null, 2010, 4164, 8010, 1010, 2290}
Revenues == {NaN, Amount(0), Amount(4700), Amount(9400), Amount(175000),
             Amount(9400000), Amount(19000000)}
Assets == {NaN, Amount(2000000), Amount(2000000000)}
NetProfits == {NaN, Amount(0), Amount(-5)}
RevenueMillions == {NaN, Amount(3)}

UnitRow(t, fy, annual, rev, assets, np, rm) ==
    [ticker |-> t, fiscal_year |-> fy, is_annual |-> annual,
     val |-> [c \in Columns |->
                IF c = "revenue" THEN rev
                ELSE IF c = "total_assets" THEN assets
                ELSE IF c = "net_profit" THEN np
                ELSE IF c = "revenue_millions" THEN rm
                ELSE Amount(12)]]

OneYear ==
    {<<UnitRow(t, 2024, annual, rev, assets, np, rm)>> :
        t \in UnitTickers, annual \in BOOLEAN, rev \in Revenues,
        assets \in Assets, np \in NetProfits, rm \in RevenueMillions}

TwoYears ==
    {<<UnitRow(t, 2023, TRUE, rev, Amount(2000000), NaN, NaN),
       UnitRow(t, 2024, annual, rev2, assets, Amount(-5), Amount(3))>> :
        t \in UnitTickers \ {Null}, annual \in BOOLEAN,
        rev \in {Amount(4700), Amount(175000)}, rev2 \in {NaN, Amount(9400000)},
        assets \in {NaN, Amount(2000000000)}}

Datasets == OneYear \cup TwoYears

InitUnits ==
    /\ df \in Datasets
    /\ multipliers = <<>>
    /\ inferred = <<>>
    /\ normalized = <<>>
    /\ passes = 0
    /\ ustage = "benchmark"
    /\ LoadIdle
    /\ UpsertIdle
    /\ RaceIdle
    /\ CalcIdle

\* build_multipliers.py: the loop over known_revenues.
Benchmark ==
    /\ ustage = "benchmark"
    /\ multipliers' = BenchmarkLoop(<<>>, latest_annual(df))
    /\ ustage' = "rules"
    /\ UNCHANGED <<df, inferred, normalized, passes, loadVars, upsertVars, raceVars, calcVars>>

\* build_multipliers.py: the loop over all companies.
Rules ==
    /\ ustage = "rules"
    /\ multipliers' = RuleLoop(multipliers, latest_annual(df))
    /\ ustage' = "insurance"
    /\ UNCHANGED <<df, inferred, normalized, passes, loadVars, upsertVars, raceVars, calcVars>>

\* build_multipliers.py: the loop over the insurance companies; the map it
\* leaves is what the two inference layers found.
Insurance ==
    /\ ustage = "insurance"
    /\ multipliers' = InsuranceLoop(multipliers, latest_annual(df))
    /\ inferred' = multipliers'
    /\ ustage' = "manual"
    /\ UNCHANGED <<df, normalized, passes, loadVars, upsertVars, raceVars, calcVars>>

\* build_multipliers.py: the manual additions, then json.dump.
Manual ==
    /\ ustage = "manual"
    /\ multipliers' = ManualLoop(multipliers)
    /\ ustage' = "saved"
    /\ UNCHANGED <<df, inferred, normalized, passes, loadVars, upsertVars, raceVars, calcVars>>

\* normalize_units.py main: normalize_data, add_normalization_metadata, to_csv.
Normalize ==
    /\ ustage = "saved"
    /\ normalized' = add_normalization_metadata(normalize_data(df, multipliers), multipliers)
    /\ passes' = passes + 1
    /\ ustage' = "normalized"
    /\ UNCHANGED <<df, multipliers, inferred, loadVars, upsertVars, raceVars, calcVars>>

\* normalize_units.py run on the file a previous run wrote.
Renormalize ==
    /\ ustage = "normalized"
    /\ passes < MaxPasses
    /\ df' = normalized
    /\ normalized' = add_normalization_metadata(normalize_data(normalized, multipliers), multipliers)
    /\ passes' = passes + 1
    /\ UNCHANGED <<multipliers, inferred, ustage, loadVars, upsertVars, raceVars, calcVars>>

NextUnits == Benchmark \/ Rules \/ Insurance \/ Manual \/ Normalize \/ Renormalize

SpecUnits == InitUnits /\ [][NextUnits]_vars

\* The multiplier normalize_data applies to the rows of ticker t: the entry of
\* the multiplier map, and no scaling for a ticker without an entry.
Resolved(m, t) == IF t \in DOMAIN m THEN m[t].multiplier ELSE 1

\* C13: in the saved multiplier map, every benchmark-listed company with a
\* positive latest annual revenue and no manual entry has the multiplier of the
\* benchmark classification of expected / observed revenue: 1,000,000 inside
\* (500,000, 2,000,000), 1,000 inside (500, 2,000), and 1 otherwise.
C13_BenchmarkClassification ==
    ustage = "saved" =>
        \A t \in DOMAIN known_revenues \cap DOMAIN latest_annual(df) :
            (t \notin DOMAIN manual_additions /\ OrZero(latest_annual(df)[t].revenue) > 0)
            => Resolved(multipliers, t)
                 = Classify(known_revenues[t], OrZero(latest_annual(df)[t].revenue)).multiplier

\* C14: once the manual additions are applied, every ticker of the manual table
\* has the manual multiplier and unit in the multiplier map, whatever the
\* benchmark classification or the rule cascade had inferred for it.
C14_ManualOverrideWins ==
    ustage \in {"saved", "normalized"} =>
        \A t \in DOMAIN manual_additions :
            t \in DOMAIN multipliers /\ multipliers[t] = manual_additions[t]

\* A saved map in which the manual entry replaced a different inferred one.
C14_Witness ==
    /\ ustage = "saved"
    /\ \E t \in DOMAIN manual_additions \cap DOMAIN inferred :
          /\ inferred[t] # manual_additions[t]
          /\ multipliers[t] = manual_additions[t]

\* Two amounts n * 1000^e that denote the same number.
SameAmount(a, b) == a = b \/ (NotNa(a) /\ NotNa(b) /\ a[1] = 0 /\ b[1] = 0)

\* C15: in the output of a normalization run, every monetary field and every
\* "in millions" column that is not null in the input equals the input value
\* times the multiplier resolved for the row's ticker, which is the multiplier
\* recorded on the row; rows of one ticker are therefore scaled alike.
C15_EveryAmountScaled ==
    ustage = "normalized" =>
        /\ Len(normalized) = Len(df)
        /\ \A i \in 1..Len(df) :
              /\ normalized[i].ticker = df[i].ticker
              /\ normalized[i].normalization_multiplier = Resolved(multipliers, df[i].ticker)
              /\ \A c \in MONETARY_COLUMNS \cup MILLIONS_COLUMNS :
                    NotNa(df[i].val[c]) =>
                        SameAmount(normalized[i].val[c],
                                   Times(df[i].val[c], Resolved(multipliers, df[i].ticker)))

\* Two rows of one company normalized by a multiplier other than 1, with a
\* monetary field and an "in millions" column scaled.
C15_Witness ==
    /\ ustage = "normalized" /\ passes = 1 /\ Len(df) = 2
    /\ Resolved(multipliers, df[1].ticker) # 1
    /\ normalized[1].val["revenue"] # df[1].val["revenue"]
    /\ normalized[2].val["net_profit"] # df[2].val["net_profit"]
    /\ normalized[2].val["revenue_millions"]
         = Times(Amount(3), Resolved(multipliers, df[2].ticker))

\* C16: a normalization run whose input is the output of a previous run (rows
\* carrying was_normalized and the multiplier applied) changes no value.
C16_NormalizationIdempotent ==
    (ustage = "normalized" /\ passes >= 2) =>
        /\ Len(normalized) = Len(df)
        /\ \A i \in 1..Len(df) :
              \A c \in Columns : SameAmount(normalized[i].val[c], df[i].val[c])

\* ---------------------------------------------------------------------------
\* SpecCalc: the derived-metrics calculations (scripts/insert_extracted_data.py,
\* scripts/bank_metrics.py), the quarter functions of the loaders and the
\* balance-sheet check of scripts/validate_extraction.py, each applied to one
\* input.  A present number n is <<n>>, a missing one (NaN, None, NULL) is NaN,
\* and the quotient a / b * scale is the fraction <<a * scale, b>>.
Num(n) == <<n>>

Frac(a, b, scale) == <<a[1] * scale, b[1]>>

\* a / b * scale on pandas columns: NaN when an operand is NaN.
PdDivide(a, b, scale) == IF NotNa(a) /\ NotNa(b) THEN Frac(a, b, scale) ELSE NaN

\* df[col] != 0, which is True for NaN.
NotZero(v) == v # Num(0)

\* np.where(cond, value, np.nan)
Where(cond, value) == IF cond THEN value ELSE NaN

\* calculate_derived_fields: the ratio columns and calc_working_capital.
calculate_derived_fields(r) ==
    [calc_ROE |-> Where(NotZero(r.total_equity) /\ NotNa(r.net_profit),
                        PdDivide(r.net_profit, r.total_equity, 100)),
     calc_ROA |-> Where(NotZero(r.total_assets) /\ NotNa(r.net_profit),
                        PdDivide(r.net_profit, r.total_assets, 100)),
     calc_gross_margin |-> Where(NotZero(r.revenue) /\ NotNa(r.gross_profit),
                                 PdDivide(r.gross_profit, r.revenue, 100)),
     calc_operating_margin |-> Where(NotZero(r.revenue) /\ NotNa(r.operating_profit),
                                     PdDivide(r.operating_profit, r.revenue, 100)),
     calc_net_margin |-> Where(NotZero(r.revenue) /\ NotNa(r.net_profit),
                               PdDivide(r.net_profit, r.revenue, 100)),
     calc_current_ratio |-> Where(NotZero(r.current_liabilities) /\ NotNa(r.current_assets),
                                  PdDivide(r.current_assets, r.current_liabilities, 1)),
     calc_quick_ratio |-> Where(/\ NotZero(r.current_liabilities)
                                /\ NotNa(r.current_assets) /\ NotNa(r.inventory),
                                PdDivide(Num(r.current_assets[1] - r.inventory[1]),
                                         r.current_liabilities, 1)),
     calc_debt_to_equity |-> Where(NotZero(r.total_equity) /\ NotNa(r.total_liabilities),
                                   PdDivide(r.total_liabilities, r.total_equity, 100)),
     calc_debt_to_assets |-> Where(NotZero(r.total_assets) /\ NotNa(r.total_liabilities),
                                   PdDivide(r.total_liabilities, r.total_assets, 100)),
     calc_asset_turnover |-> Where(NotZero(r.total_assets) /\ NotNa(r.revenue),
                                   PdDivide(r.revenue, r.total_assets, 1)),
     calc_working_capital |-> Where(NotNa(r.current_assets) /\ NotNa(r.current_liabilities),
                                    Num(r.current_assets[1] - r.current_liabilities[1]))]

\* The truth value of an Optional[float]: neither None nor 0.
Truthy(v) == NotNa(v) /\ v[1] # 0

\* if num and den and den != 0: ratio = (num / den) * 100
IfTruthy(num, den) == IF Truthy(num) /\ Truthy(den) THEN Frac(num, den, 100) ELSE NaN

calculate_bank_ratios(m) ==
    [net_interest_margin |-> IfTruthy(m.net_interest_income, m.total_assets),
     cost_to_income_ratio |-> IfTruthy(m.operating_expenses, m.total_operating_income),
     loan_to_deposit_ratio |-> IfTruthy(m.total_loans, m.total_deposits),
     npl_ratio |-> IF NotNa(m.non_performing_loans) /\ Truthy(m.total_loans)
                   THEN Frac(m.non_performing_loans, m.total_loans, 100) ELSE NaN,
     capital_adequacy_ratio |-> IfTruthy(m.tier1_capital, m.risk_weighted_assets),
     tier1_ratio |-> IfTruthy(m.tier1_capital, m.risk_weighted_assets),
     return_on_equity |-> IfTruthy(m.net_profit, m.total_equity),
     return_on_assets |-> IfTruthy(m.net_profit, m.total_assets)]

\* expense_ratio = ((policy_acquisition_costs or 0) + (operating_expenses or 0))
\*                 / net_earned_premiums * 100
ExpenseRatio(m) ==
    IF Truthy(m.net_earned_premiums)
    THEN Frac(Num(OrZero(m.policy_acquisition_costs) + OrZero(m.operating_expenses)),
              m.net_earned_premiums, 100)
    ELSE NaN

\* combined_ratio = loss_ratio + expense_ratio, when both are set
CombinedRatio(loss, expense) ==
    IF NotNa(loss) /\ NotNa(expense)
    THEN <<loss[1] * expense[2] + expense[1] * loss[2], loss[2] * expense[2]>>
    ELSE NaN

calculate_insurance_ratios(m) ==
    [loss_ratio |-> IfTruthy(m.claims_incurred, m.net_earned_premiums),
     expense_ratio |-> ExpenseRatio(m),
     combined_ratio |-> CombinedRatio(IfTruthy(m.claims_incurred, m.net_earned_premiums),
                                      ExpenseRatio(m)),
     retention_ratio |-> IfTruthy(m.net_written_premiums, m.gross_written_premiums),
     return_on_equity |-> IfTruthy(m.net_profit, m.total_equity),
     return_on_assets |-> IfTruthy(m.net_profit, m.total_assets),
     solvency_ratio |-> IfTruthy(m.total_equity, m.technical_reserves)]

Abs(n) == IF n < 0 THEN -n ELSE n

\* The rows the balance-sheet query returns: fiscal year 2024 with the three
\* totals present (NUMERIC columns).
BalanceRows(financial_data) ==
    {i \in 1..Len(financial_data) :
        /\ financial_data[i].fiscal_year = 2024
        /\ NotNa(financial_data[i].total_assets)
        /\ NotNa(financial_data[i].total_liabilities)
        /\ NotNa(financial_data[i].total_equity)}

\* variance_pct > tolerance, with variance_pct = 0 unless total_assets > 0 and
\* tolerance = 5.0.
VarianceOverTolerance(row) ==
    /\ row.total_assets[1] > 0
    /\ Abs(row.total_assets[1] - (row.total_liabilities[1] + row.total_equity[1])) * 100
         > 5 * row.total_assets[1]

\* validate_balance_sheet: the tickers appended to validation_results['failed']
\* (the query has no ORDER BY) and whether the "All ... passed" entry is added.
validate_balance_sheet(financial_data) ==
    [failed |-> {financial_data[i].ticker :
                    i \in {j \in BalanceRows(financial_data) :
                              VarianceOverTolerance(financial_data[j])}},
     passed |-> /\ BalanceRows(financial_data) # {}
                /\ \A j \in BalanceRows(financial_data) :
                      ~VarianceOverTolerance(financial_data[j])]

\* ---- status fields of a Metrics row.  A cell is <<>> when it is missing (NaN)
\* and <<text>> otherwise; a stored value is <<>> for NULL and <<text>> for text.
STATUS_VALUES ==
    [profit_status |-> {<<"P", "r", "o", "f", "i", "t">>, <<"L", "o", "s", "s">>, <<"N", "/", "A">>},
     liquidity_status |-> {<<"S", "t", "r", "o", "n", "g">>, <<"M", "o", "d", "e", "r", "a", "t", "e">>, <<"W", "e", "a", "k">>, <<"C", "r", "i", "t", "i", "c", "a", "l">>},
     leverage_status |-> {<<"L", "o", "w">>, <<"M", "o", "d", "e", "r", "a", "t", "e">>, <<"H", "i", "g", "h">>, <<"C", "r", "i", "t", "i", "c", "a", "l">>},
     roe_status |-> {<<"E", "x", "c", "e", "l", "l", "e", "n", "t">>, <<"G", "o", "o", "d">>, <<"A", "v", "e", "r", "a", "g", "e">>, <<"W", "e", "a", "k">>, <<"N", "e", "g", "a", "t", "i", "v", "e">>, <<"N", "/", "A">>}]

NullSentinels == {<<"n", "a", "n">>, <<"n", "/", "a">>, <<>>, <<"n", "o", "n", "e">>}

\* str(value) of a cell: 'nan' for NaN
PyStr(value) == IF value = <<>> THEN <<"n", "a", "n">> ELSE value[1]

\* migrate_data.clean_status
clean_status(value, valid_values) ==
    IF value = <<>> THEN <<>>
    ELSE IF Lower(Strip(value[1])) \in NullSentinels THEN <<>>
    ELSE IF Strip(value[1]) \in valid_values THEN <<Strip(value[1])>>
    ELSE <<>>

\* str(row.get(field, "")).strip() or None
StripOrNone(value) == IF Strip(PyStr(value)) = <<>> THEN <<>> ELSE <<Strip(PyStr(value))>>

\* The status value the loader l puts in the INSERT INTO financial_metrics.
StoredStatus(l, field, value) ==
    IF l = "md" THEN clean_status(value, STATUS_VALUES[field]) ELSE StripOrNone(value)

StatusCells == {<<>>} \cup {<<text>> : text \in {<<"P", "r", "o", "f", "i", "t">>,
                                            <<" ", "L", "o", "s", "s", " ">>,
                                            <<"N", "/", "A">>,
                                            <<"n", "a", "n">>,
                                            <<"N", "A", "N">>,
                                            <<"N", "o", "n", "e">>,
                                            <<>>,
                                            <<" ", " ">>,
                                            <<"B", "a", "d">>,
                                            <<"G", "o", "o", "d">>,
                                            <<"p", "r", "o", "f", "i", "t">>,
                                            <<"W", "e", "a", "k">>}}

StatusInputs ==
    {[kind |-> "status", loader |-> l, field |-> f, value |-> v] :
        l \in Loaders, f \in DOMAIN STATUS_VALUES, v \in StatusCells}

\* The inputs of the calculations.
Present == {Num(0), Num(4)}
Optional == {NaN} \cup Present
Profits == Optional \cup {Num(-3)}

StandardInputs ==
    {[kind |-> "standard", net_profit |-> np, total_equity |-> eq, total_assets |-> ta,
      revenue |-> rev, gross_profit |-> x, operating_profit |-> x, total_liabilities |-> x,
      current_assets |-> x, current_liabilities |-> cl, inventory |-> inv] :
        np \in Profits, eq \in Optional, ta \in Optional, rev \in Optional,
        x \in Optional, cl \in Optional, inv \in {NaN, Num(1)}}

BankInputs ==
    {[kind |-> "bank", net_profit |-> np, total_equity |-> eq, total_assets |-> ta,
      net_interest_income |-> x, operating_expenses |-> x, tier1_capital |-> x,
      non_performing_loans |-> x, total_loans |-> tl, total_operating_income |-> y,
      total_deposits |-> y, risk_weighted_assets |-> y] :
        np \in Profits, eq \in Optional, ta \in Optional,
        x \in Optional, tl \in Optional, y \in Optional}

InsuranceInputs ==
    {[kind |-> "insurance", net_profit |-> np, total_equity |-> eq, total_assets |-> ta,
      claims_incurred |-> x, net_written_premiums |-> x, policy_acquisition_costs |-> pac,
      operating_expenses |-> opex, net_earned_premiums |-> y,
      gross_written_premiums |-> y, technical_reserves |-> y] :
        np \in Profits, eq \in Optional, ta \in Optional, x \in Optional,
        pac \in Optional, opex \in Optional, y \in Optional}

QuarterInputs ==
    {[kind |-> "quarter", month |-> month, period_type |-> ptype] :
        month \in 1..12, ptype \in {"Annual", "Quarterly", "Semi-Annual"}}

BalanceRecords ==
    {[ticker |-> 1010, fiscal_year |-> fy, total_assets |-> ta,
      total_liabilities |-> tl, total_equity |-> eq] :
        fy \in {2023, 2024}, ta \in {NaN, Num(1000), Num(0), Num(-1000)},
        tl \in {NaN, Num(600)}, eq \in {NaN, Num(400), Num(350), Num(300)}}

SoundRecord ==
    [ticker |-> 2222, fiscal_year |-> 2024, total_assets |-> Num(1000),
     total_liabilities |-> Num(600), total_equity |-> Num(400)]

BalanceInputs ==
    {[kind |-> "balance", financial_data |-> fd] :
        fd \in {<<>>} \cup {<<r>> : r \in BalanceRecords}
               \cup {<<SoundRecord, r>> : r \in BalanceRecords}}

CalcInputs ==
    StandardInputs \cup BankInputs \cup InsuranceInputs \cup QuarterInputs \cup BalanceInputs
        \cup StatusInputs

InitCalc ==
    /\ arg \in CalcInputs
    /\ result = <<>>
    /\ cpc = "call"
    /\ LoadIdle
    /\ UpsertIdle
    /\ RaceIdle
    /\ UnitsIdle

CalcFrame == UNCHANGED <<arg, loadVars, upsertVars, raceVars, unitVars>>

CalculateDerivedFields ==
    /\ cpc = "call" /\ arg.kind = "standard"
    /\ result' = calculate_derived_fields(arg)
    /\ cpc' = "done"
    /\ CalcFrame

CalculateBankRatios ==
    /\ cpc = "call" /\ arg.kind = "bank"
    /\ result' = calculate_bank_ratios(arg)
    /\ cpc' = "done"
    /\ CalcFrame

CalculateInsuranceRatios ==
    /\ cpc = "call" /\ arg.kind = "insurance"
    /\ result' = calculate_insurance_ratios(arg)
    /\ cpc' = "done"
    /\ CalcFrame

\* determine_quarter_from_date / get_quarter
GetQuarter ==
    /\ cpc = "call" /\ arg.kind = "quarter"
    /\ result' = Quarter(arg.month, arg.period_type)
    /\ cpc' = "done"
    /\ CalcFrame

\* DataValidator.validate_balance_sheet: a SELECT only, the table is not written.
ValidateBalanceSheet ==
    /\ cpc = "call" /\ arg.kind = "balance"
    /\ result' = validate_balance_sheet(arg.financial_data)
    /\ cpc' = "done"
    /\ CalcFrame

\* The status value of one field of the Metrics row a loader inserts.
CleanStatus ==
    /\ cpc = "call" /\ arg.kind = "status"
    /\ result' = StoredStatus(arg.loader, arg.field, arg.value)
    /\ cpc' = "done"
    /\ CalcFrame

NextCalc ==
    \/ CleanStatus
    \/ CalculateDerivedFields
    \/ CalculateBankRatios
    \/ CalculateInsuranceRatios
    \/ GetQuarter
    \/ ValidateBalanceSheet

SpecCalc == InitCalc /\ [][NextCalc]_vars

\* The ratios of each calculation: the output field, the input fields of the
\* numerator and the input field of the denominator.
Ratio(name, nums, den) == [name |-> name, nums |-> nums, den |-> den]

Ratios(kind) ==
    IF kind = "standard" THEN
        {Ratio("calc_ROE", {"net_profit"}, "total_equity"),
         Ratio("calc_ROA", {"net_profit"}, "total_assets"),
         Ratio("calc_gross_margin", {"gross_profit"}, "revenue"),
         Ratio("calc_operating_margin", {"operating_profit"}, "revenue"),
         Ratio("calc_net_margin", {"net_profit"}, "revenue"),
         Ratio("calc_current_ratio", {"current_assets"}, "current_liabilities"),
         Ratio("calc_quick_ratio", {"current_assets", "inventory"}, "current_liabilities"),
         Ratio("calc_debt_to_equity", {"total_liabilities"}, "total_equity"),
         Ratio("calc_debt_to_assets", {"total_liabilities"}, "total_assets"),
         Ratio("calc_asset_turnover", {"revenue"}, "total_assets")}
    ELSE IF kind = "bank" THEN
        {Ratio("net_interest_margin", {"net_interest_income"}, "total_assets"),
         Ratio("cost_to_income_ratio", {"operating_expenses"}, "total_operating_income"),
         Ratio("loan_to_deposit_ratio", {"total_loans"}, "total_deposits"),
         Ratio("npl_ratio", {"non_performing_loans"}, "total_loans"),
         Ratio("capital_adequacy_ratio", {"tier1_capital"}, "risk_weighted_assets"),
         Ratio("return_on_equity", {"net_profit"}, "total_equity"),
         Ratio("return_on_assets", {"net_profit"}, "total_assets")}
    ELSE
        {Ratio("loss_ratio", {"claims_incurred"}, "net_earned_premiums"),
         Ratio("expense_ratio", {"policy_acquisition_costs", "operating_expenses"},
               "net_earned_premiums"),
         Ratio("retention_ratio", {"net_written_premiums"}, "gross_written_premiums"),
         Ratio("return_on_equity", {"net_profit"}, "total_equity"),
         Ratio("return_on_assets", {"net_profit"}, "total_assets"),
         Ratio("solvency_ratio", {"total_equity"}, "technical_reserves")}

\* C17: every ratio a calculation returns is null when the ratio's denominator
\* is zero or null or an input of its numerator is null.
C17_RatiosNullSafe ==
    (cpc = "done" /\ arg.kind \in {"standard", "bank", "insurance"}) =>
        \A r \in Ratios(arg.kind) :
            (arg[r.den] \in {NaN, Num(0)} \/ \E n \in r.nums : arg[n] = NaN)
            => result[r.name] = NaN

\* The standard calculation on the net profit, equity and assets of a bank or
\* insurance record.
StandardOf(m) ==
    calculate_derived_fields(
        [net_profit |-> m.net_profit, total_equity |-> m.total_equity,
         total_assets |-> m.total_assets, revenue |-> NaN, gross_profit |-> NaN,
         operating_profit |-> NaN, total_liabilities |-> NaN, current_assets |-> NaN,
         current_liabilities |-> NaN, inventory |-> NaN])

\* C18: for a bank or insurance record with a present net_profit, the ROE
\* returned equals the standard net_profit / total_equity * 100 when
\* total_equity is present and not zero, and the ROA returned equals the
\* standard net_profit / total_assets * 100 when total_assets is present and
\* not zero.
C18_SameRoeRoaAsStandard ==
    (cpc = "done" /\ arg.kind \in {"bank", "insurance"} /\ NotNa(arg.net_profit)) =>
        /\ Truthy(arg.total_equity) =>
              /\ result.return_on_equity = StandardOf(arg).calc_ROE
              /\ result.return_on_equity = Frac(arg.net_profit, arg.total_equity, 100)
        /\ Truthy(arg.total_assets) =>
              /\ result.return_on_assets = StandardOf(arg).calc_ROA
              /\ result.return_on_assets = Frac(arg.net_profit, arg.total_assets, 100)

\* C19: the fiscal quarter returned is FY when period_type is Annual, whatever
\* the month of period_end, and otherwise Q1 for months 1-3, Q2 for months 4-6,
\* Q3 for months 7-9 and Q4 for months 10-12.
C19_QuarterFromMonthUnlessAnnual ==
    (cpc = "done" /\ arg.kind = "quarter") =>
        result = (IF arg.period_type = "Annual" THEN "FY"
                  ELSE IF arg.month \in {1, 2, 3} THEN "Q1"
                  ELSE IF arg.month \in {4, 5, 6} THEN "Q2"
                  ELSE IF arg.month \in {7, 8, 9} THEN "Q3"
                  ELSE "Q4")

\* A period ending in February with period type Annual was given FY.
C19_Witness ==
    /\ cpc = "done" /\ arg.kind = "quarter"
    /\ arg.month = 2 /\ arg.period_type = "Annual" /\ result = "FY"

\* |total_assets - (total_liabilities + total_equity)| / total_assets > 5%
ExceedsTolerance(row) ==
    \/ /\ row.total_assets[1] > 0
       /\ Abs(row.total_assets[1] - (row.total_liabilities[1] + row.total_equity[1])) * 100
            > 5 * row.total_assets[1]
    \/ /\ row.total_assets[1] < 0
       /\ Abs(row.total_assets[1] - (row.total_liabilities[1] + row.total_equity[1])) * 100
            < 5 * row.total_assets[1]

\* C20: after the balance-sheet check, a record that has total_assets (not
\* zero), total_liabilities and total_equity is in the failed category exactly
\* when its variance exceeds 5% of total_assets.
C20_ViolationIffOverTolerance ==
    (cpc = "done" /\ arg.kind = "balance") =>
        \A i \in 1..Len(arg.financial_data) :
            LET row == arg.financial_data[i] IN
            (/\ NotNa(row.total_assets) /\ row.total_assets # Num(0)
             /\ NotNa(row.total_liabilities) /\ NotNa(row.total_equity))
            => (row.ticker \in result.failed <=> ExceedsTolerance(row))

\* ---------------------------------------------------------------------------
\* SpecValidate: one run of scripts/validate_extraction.py main.  arg is what
\* the database holds for the run (the answers of the queries, and the queries
\* that raise), result is validation_results with the state of the connection
\* and the exit status, cpc is the phase main has reached.
CriticalFields == <<"ticker", "company_name", "fiscal_year", "total_assets", "total_revenue">>

Views == <<"vw_banks_summary", "vw_industrial_summary", "vw_latest_financials">>

\* execute_query returns None: the query raises, or an earlier query raised on
\* this connection and the transaction, never rolled back, is still aborted.
ReturnsNone(r, inp, q) == r.aborted \/ q \in inp.raises

execute_query(r, inp, q) == [r EXCEPT !.aborted = ReturnsNone(r, inp, q)]

AppendTo(r, category, label) == [r EXCEPT ![category] = Append(@, label)]

\* validate_record_counts: the total, the count by fiscal year, the count by sector.
CountTotal(r, inp) ==
    IF ReturnsNone(r, inp, "total") THEN execute_query(r, inp, "total")
    ELSE IF inp.total >= 33 THEN AppendTo(r, "passed", "Record count validation")
    ELSE AppendTo(r, "failed", "Record count too low")

CountByYear(r, inp) ==
    IF ReturnsNone(r, inp, "by_year") \/ inp.total = 0 THEN execute_query(r, inp, "by_year")
    ELSE IF inp.fy2024 = 33 THEN AppendTo(r, "passed", "FY2024 record count")
    ELSE IF inp.fy2024 >= 30 THEN AppendTo(r, "warnings", "FY2024 record count")
    ELSE AppendTo(r, "failed", "FY2024 record count too low")

validate_record_counts(r, inp) ==
    execute_query(CountByYear(CountTotal(r, inp), inp), inp, "by_sector")

\* if result and null_count > 0: failed, else: passed
NullScan(r, inp, field) ==
    IF ~ReturnsNone(r, inp, field) /\ field \in inp.nulls
    THEN AppendTo(r, "failed", field)
    ELSE AppendTo(execute_query(r, inp, field), "passed", field)

RECURSIVE NullScans(_, _, _)
NullScans(r, inp, i) ==
    IF i > Len(CriticalFields) THEN r
    ELSE NullScans(NullScan(r, inp, CriticalFields[i]), inp, i + 1)

\* if result and len(result) > 0: failed per group, else: passed
DuplicateScan(r, inp) ==
    IF ~ReturnsNone(r, inp, "duplicates") /\ inp.duplicates
    THEN AppendTo(r, "failed", "Duplicate")
    ELSE AppendTo(execute_query(r, inp, "duplicates"), "passed", "No duplicate records")

validate_data_integrity(r, inp) == DuplicateScan(NullScans(r, inp, 1), inp)

\* validate_balance_sheet on validation_results.
RECURSIVE AppendAll(_, _, _)
AppendAll(r, category, labels) ==
    IF labels = {} THEN r
    ELSE LET l == CHOOSE x \in labels : TRUE
         IN AppendAll(AppendTo(r, category, l), category, labels \ {l})

BalancePhase(r, inp) ==
    IF ReturnsNone(r, inp, "balance") \/ BalanceRows(inp.financial_data) = {}
    THEN execute_query(r, inp, "balance")
    ELSE IF validate_balance_sheet(inp.financial_data).passed
    THEN AppendTo(r, "passed", "All records passed balance sheet validation")
    ELSE AppendAll(r, "failed", validate_balance_sheet(inp.financial_data).failed)

\* validate_data_quality: warnings only.
QualityWarning(r, inp, q, found) ==
    IF ~ReturnsNone(r, inp, q) /\ found THEN AppendTo(r, "warnings", q)
    ELSE execute_query(r, inp, q)

validate_data_quality(r, inp) ==
    QualityWarning(QualityWarning(r, inp, "negative_equity", inp.negative_equity),
                   inp, "high_cogs", inp.high_cogs)

\* check_sector_views: execute_query never raises, so the except branch that
\* records a failed view is never taken.
RECURSIVE check_sector_views(_, _, _)
check_sector_views(r, inp, i) ==
    IF i > Len(Views) THEN r
    ELSE check_sector_views(
            IF ReturnsNone(r, inp, Views[i]) THEN execute_query(r, inp, Views[i])
            ELSE AppendTo(r, "passed", Views[i]),
            inp, i + 1)

\* A report that fails on warnings as well.
ExitStatusCountingWarnings(r) == IF Len(r.failed) = 0 /\ Len(r.warnings) = 0 THEN 0 ELSE 1

\* generate_report and sys.exit(0 if success else 1)
ExitStatus(r) == IF Len(r.failed) = 0 THEN 0 ELSE 1

ViolatingRecord ==
    [ticker |-> 1010, fiscal_year |-> 2024, total_assets |-> Num(1000),
     total_liabilities |-> Num(600), total_equity |-> Num(300)]

RecordCounts == {<<0, 0>>, <<10, 0>>, <<33, 30>>, <<33, 33>>, <<40, 33>>}

ValidateInputs ==
    {[kind |-> "validate", connects |-> c, raises |-> rs, total |-> n[1], fy2024 |-> n[2],
      nulls |-> nulls, duplicates |-> d, financial_data |-> fd,
      negative_equity |-> ne, high_cogs |-> hc] :
        c \in BOOLEAN,
        rs \in {{}, {"by_sector"}, {"total_revenue"}, {"duplicates"}, {"balance"},
                {"high_cogs"}, {"vw_banks_summary"}, {"vw_latest_financials"}},
        n \in RecordCounts,
        nulls \in {{}, {"total_assets"}, {"ticker", "total_revenue"}},
        d \in BOOLEAN,
        fd \in {<<>>, <<SoundRecord>>, <<SoundRecord, ViolatingRecord>>},
        ne \in BOOLEAN, hc \in BOOLEAN}

\* DataValidator.__init__; exit -1 stands for a process that has not exited.
InitValidate ==
    /\ arg \in ValidateInputs
    /\ result = [passed |-> <<>>, failed |-> <<>>, warnings |-> <<>>,
                 aborted |-> FALSE, report |-> FALSE, exit |-> -1]
    /\ cpc = "connect"
    /\ LoadIdle
    /\ UpsertIdle
    /\ RaceIdle
    /\ UnitsIdle

\* main: validator.connect(), sys.exit(1) when it fails.
Connect ==
    /\ cpc = "connect"
    /\ IF arg.connects
       THEN cpc' = "counts" /\ result' = result
       ELSE cpc' = "exited" /\ result' = [result EXCEPT !.exit = 1]
    /\ CalcFrame

ValidateRecordCounts ==
    /\ cpc = "counts"
    /\ result' = validate_record_counts(result, arg)
    /\ cpc' = "integrity"
    /\ CalcFrame

ValidateDataIntegrity ==
    /\ cpc = "integrity"
    /\ result' = validate_data_integrity(result, arg)
    /\ cpc' = "balance"
    /\ CalcFrame

ValidateBalance ==
    /\ cpc = "balance"
    /\ result' = BalancePhase(result, arg)
    /\ cpc' = "quality"
    /\ CalcFrame

ValidateDataQuality ==
    /\ cpc = "quality"
    /\ result' = validate_data_quality(result, arg)
    /\ cpc' = "views"
    /\ CalcFrame

CheckSectorViews ==
    /\ cpc = "views"
    /\ result' = check_sector_views(result, arg, 1)
    /\ cpc' = "report"
    /\ CalcFrame

\* generate_report writes VALIDATION_RESULTS.json; main exits with its status.
GenerateReport ==
    /\ cpc = "report"
    /\ result' = [result EXCEPT !.report = TRUE, !.exit = ExitStatus(result)]
    /\ cpc' = "exited"
    /\ CalcFrame

NextValidate ==
    \/ Connect
    \/ ValidateRecordCounts
    \/ ValidateDataIntegrity
    \/ ValidateBalance
    \/ ValidateDataQuality
    \/ CheckSectorViews
    \/ GenerateReport

SpecValidate == InitValidate /\ [][NextValidate]_vars

C30_PassedOnlyIfQueryRan ==
    cpc \in {"report", "exited"} /\ arg.connects =>
        \A q \in arg.raises :
            /\ \A i \in 1..Len(result.passed) :
                  /\ result.passed[i] # q
                  /\ q = "duplicates" => result.passed[i] # "No duplicate records"
            /\ (\E v \in 1..Len(Views) : Views[v] = q)
                  => \E i \in 1..Len(result.failed) : result.failed[i] = q

\* C22: the status value a loader stores in a Metrics row is NULL or a member
\* of the field's vocabulary; a missing cell and the null sentinels are stored
\* as NULL.
C22_StatusNullOrInVocabulary ==
    (cpc = "done" /\ arg.kind = "status") =>
        /\ result = <<>> \/ result[1] \in STATUS_VALUES[arg.field]
        /\ (arg.value = <<>> \/ Lower(Strip(arg.value[1])) \in NullSentinels) => result = <<>>

\* C23: the sector rows the run's connection sees have distinct trimmed,
\* case-normalized names, so names that differ only in letter case or in
\* surrounding whitespace have one Sector row and one id.
C23_OneSectorPerNormalizedName ==
    \A r1, r2 \in view.sectors :
        Lower(Strip(r1.name)) = Lower(Strip(r2.name)) => r1 = r2

\* The first matching rule of the cascade for ticker t with the revenue and
\* total_assets of its latest annual record (0 for a null), or Sar for none.
FirstRule(t, revenue, total_assets) ==
    IF revenue <= 0 THEN Sar
    ELSE IF revenue < 50000 /\ total_assets > 1000000 THEN Millions
    ELSE IF 50000 <= revenue /\ revenue < 1000000000 /\ total_assets > 100 * revenue
         THEN Thousands
    ELSE IF 8000 <= t /\ t < 9000 /\ revenue < 100000000 THEN Thousands
    ELSE Sar

DateLeq(d1, d2) ==
    \/ d1[1] < d2[1]
    \/ d1[1] = d2[1] /\ d1[2] < d2[2]
    \/ d1[1] = d2[1] /\ d1[2] = d2[2] /\ d1[3] <= d2[3]

\* C25: every fiscal period row starts no later than it ends; an Annual row
\* has quarter FY and spans January 1 to December 31 of its fiscal year, and
\* any other row spans the first to the last day of its quarter.
C25_PeriodSpansItsQuarter ==
    \A p \in view.periods :
        /\ DateLeq(p.period_start, p.period_end)
        /\ IF p.ptype = "Annual"
           THEN /\ p.quarter = "FY"
                /\ p.period_start = <<p.year, 1, 1>> /\ p.period_end = <<p.year, 12, 31>>
           ELSE \/ p.quarter = "Q1" /\ p.period_start = <<p.year, 1, 1>>
                                    /\ p.period_end = <<p.year, 3, 31>>
                \/ p.quarter = "Q2" /\ p.period_start = <<p.year, 4, 1>>
                                    /\ p.period_end = <<p.year, 6, 30>>
                \/ p.quarter = "Q3" /\ p.period_start = <<p.year, 7, 1>>
                                    /\ p.period_end = <<p.year, 9, 30>>
                \/ p.quarter = "Q4" /\ p.period_start = <<p.year, 10, 1>>
                                    /\ p.period_end = <<p.year, 12, 31>>

\* A run that created an Annual row for a record filed with a February
\* period_end, and a quarter row.
C25_Witness ==
    /\ \E p \in view.periods : p.ptype = "Annual" /\ p.quarter = "FY"
    /\ \E p \in view.periods : p.quarter = "Q1" /\ p.period_end = <<p.year, 3, 31>>
    /\ \E r \in rows : r.ptype = "Annual" /\ r.month = 2

\* C26: when the record at a 500-record boundary has been handled, the
\* transaction has been committed: the connection holds no uncommitted write,
\* so no more than 500 consecutive records ever share uncommitted writes.
C26_CommittedAtEveryBoundary ==
    [][(idx' = idx + 1 /\ idx' % BatchSize = 0) => view' = store']_vars

\* C27: while a load run is in its loop, every id held in the sector, company
\* or period cache is the id of a row of its table that the run's connection
\* sees.
C27_CachedIdsExist ==
    pc = "loop" =>
    /\ \A k \in DOMAIN sectors_cache : \E r \in view.sectors : r.id = sectors_cache[k]
    /\ \A k \in DOMAIN companies_cache : \E r \in view.companies : r.id = companies_cache[k]
    /\ \A k \in DOMAIN periods_cache : \E r \in view.periods : r.id = periods_cache[k]

\* C28: when the ETL migrator has processed a record without an error, the
\* Statement whose id insert_financial_statement returned, and whose Metrics
\* row was checked or inserted, is a row of the record's own company_id and
\* period_id.
C28_StatementOfOwnKey ==
    [][\A row \in rows, dbfail \in fails :
          (loader = "etl" /\ ProcessRecord(row, dbfail) /\ success' = success + 1)
          => \E st \in view'.statements :
                /\ st.id = TryBody(Machine, row, dbfail).sid
                /\ st.company_id = TryBody(Machine, row, dbfail).c.id
                /\ st.period_id = TryBody(Machine, row, dbfail).p.id]_vars

\* C29: the first record of a (company_id, period_id) wins. Once the Statement
\* of a key and its Metrics row exist, a record that resolves to the same key,
\* in the same run or in a later one, leaves the Statement row and the Metrics
\* rows of that Statement as they were, whatever data it carries.
MetricsOf(v, sid) == {x \in v.metrics : x.statement_id = sid}

SameKeyRows(v, b) ==
    {st \in v.statements :
        /\ ~b.c.err /\ ~b.p.err
        /\ st.company_id = b.c.id /\ st.period_id = b.p.id
        /\ MetricsOf(v, st.id) # {}}

==========================================================================
